---- MODULE Spec2Model ----
(***************************************************************************)
(* Conversation decision pipeline of the agentic honey-pot:                *)
(* ConversationOrchestrator.process_message with the session store, the    *)
(* rule-based classifier, the regex extractor's post-processing, the merge *)
(* of intelligence, the termination predicate and finalize-and-callback.   *)
(*                                                                         *)
(* Strings whose case matters are sequences of one-character strings.      *)
(* Confidences are exact rationals in units of 1/4200 (4200 is divisible   *)
(* by every denominator the classifier produces: 5, 6, 7, 10, 12, 14, 3).  *)
(* A message is the text seen through the program's regular expressions    *)
(* and keyword lists: what each pattern's findall returns on it and how    *)
(* many entries of each keyword list it contains.                          *)
(***************************************************************************)
EXTENDS Integers, Sequences, FiniteSets, TLC

VARIABLES
  sessions,         \* SessionMemory._sessions: dict session_id -> session
  now,              \* the clock read by datetime.now()
  calls,            \* per session id: process_message calls made
  detectCalls,      \* per session id: ScamDetector.detect invocations
  respondCalls,     \* per session id: PersonaManager.generate_response invocations
  extractCalls,     \* per session id: IntelligenceExtractor.extract invocations
  extractedLog,     \* per session id and key: every value a turn's extract returned
  finalizeAttempts, \* per session id: _finalize_and_callback invocations
  flagSets,         \* per session id: false -> true changes of "finalized"
  reporterLog,      \* per session id: send_final_result invocations (payload, outcome)
  lastDetect,       \* what detect returned in the latest call, if it ran
  response,         \* the AgentResponse returned by the latest call
  generated,        \* what generate_response returned in the latest call, if it ran
  llmProvider,      \* settings.LLM_PROVIDER ("groq": groq with GROQ_API_KEY set)
  tasks,            \* process_message coroutines in flight, each at a suspension point
  sender,           \* one send_final_result call: position, attempt, events, result
  detection,        \* the latest detect call and the one before it, alone
  extraction,       \* the latest extract call, alone
  storeCall,        \* the direct call of a SessionMemory method made in the latest step
  generation        \* the latest generate_response call, alone

vars ==
  <<sessions, now, calls, detectCalls, respondCalls, extractCalls, extractedLog,
    finalizeAttempts, flagSets, reporterLog, lastDetect, response, generated,
    llmProvider, tasks, sender, detection, extraction, storeCall, generation>>

\* written only where detect, extract, the store's methods and generate_response are
\* called by themselves
unitVars ==
  <<detection, extraction, storeCall, generation>>

-----------------------------------------------------------------------------
(* Bounds *)

\* process_message calls made per session identifier
MaxCalls ==
  4

SessionIds ==
  {"s1"}

\* process_message coroutines created when requests may overlap
MaxTasks ==
  3

TaskIds ==
  1..MaxTasks

-----------------------------------------------------------------------------
(* Characters and strings *)

UpperLetters ==
  <<"A","B","C","D","E","F","G","H","I","J","K","L","M",
    "N","O","P","Q","R","S","T","U","V","W","X","Y","Z">>

LowerLetters ==
  <<"a","b","c","d","e","f","g","h","i","j","k","l","m",
    "n","o","p","q","r","s","t","u","v","w","x","y","z">>

DigitChars ==
  {"0","1","2","3","4","5","6","7","8","9"}

LowerChar(c) ==
  IF \E i \in DOMAIN UpperLetters : UpperLetters[i] = c
  THEN LowerLetters[CHOOSE i \in DOMAIN UpperLetters : UpperLetters[i] = c]
  ELSE c

\* str.lower()
Lower(s) ==
  [i \in DOMAIN s |-> LowerChar(s[i])]

Range(seq) ==
  {seq[i] : i \in DOMAIN seq}

IntelKeys ==
  {"bankAccounts", "upiIds", "phishingLinks", "phoneNumbers", "suspiciousKeywords"}

-----------------------------------------------------------------------------
(* Messages: concrete texts, seen through the program's patterns *)

KEYWORD_CATEGORIES ==
  <<<<"u","r","g","e","n","t">>,
    <<"i","m","m","e","d","i","a","t","e","l","y">>,
    <<"n","o","w">>,
    <<"t","o","d","a","y">>,
    <<"e","x","p","i","r","e">>,
    <<"l","a","s","t"," ","c","h","a","n","c","e">>,
    <<"b","a","n","k">>,
    <<"r","b","i">>,
    <<"g","o","v","e","r","n","m","e","n","t">>,
    <<"p","o","l","i","c","e">>,
    <<"o","f","f","i","c","i","a","l">>,
    <<"a","u","t","h","o","r","i","z","e","d">>,
    <<"c","l","i","c","k">>,
    <<"v","e","r","i","f","y">>,
    <<"u","p","d","a","t","e">>,
    <<"c","o","n","f","i","r","m">>,
    <<"s","h","a","r","e">>,
    <<"p","a","y">>,
    <<"s","e","n","d">>,
    <<"b","l","o","c","k","e","d">>,
    <<"s","u","s","p","e","n","d","e","d">>,
    <<"t","e","r","m","i","n","a","t","e","d">>,
    <<"d","i","s","c","o","n","n","e","c","t","e","d">>,
    <<"p","e","n","a","l","t","y">>,
    <<"l","e","g","a","l"," ","a","c","t","i","o","n">>,
    <<"u","p","i">>,
    <<"a","c","c","o","u","n","t">>,
    <<"p","a","y","m","e","n","t">>,
    <<"t","r","a","n","s","f","e","r">>,
    <<"f","e","e">>,
    <<"c","h","a","r","g","e">>,
    <<"r","e","f","u","n","d">>>>

\* Hello, how are you?
msgHello ==
  [ id |-> "msgHello",
    matches |-> <<0,0,0,0,0,0>>,
    urgency |-> 0, authority |-> 0, action |-> 0, high_risk |-> 0,
    upiIds |-> <<>>,
    bankAccounts |-> <<>>,
    phoneNumbers |-> <<>>,
    phishingLinks |-> <<>>,
    shortenedLinks |-> <<>>,
    keywords |-> {} ]

\* kyc upi
msgKycUpi ==
  [ id |-> "msgKycUpi",
    matches |-> <<0,0,0,0,0,0>>,
    urgency |-> 0, authority |-> 0, action |-> 0, high_risk |-> 2,
    upiIds |-> <<>>,
    bankAccounts |-> <<>>,
    phoneNumbers |-> <<>>,
    phishingLinks |-> <<>>,
    shortenedLinks |-> <<>>,
    keywords |-> {<<"u","p","i">>} ]

\* Your SBI KYC expired. Update immediately at bit.ly/fake-kyc
msgKycLink ==
  [ id |-> "msgKycLink",
    matches |-> <<0,1,0,0,0,0>>,
    urgency |-> 2, authority |-> 0, action |-> 1, high_risk |-> 1,
    upiIds |-> <<>>,
    bankAccounts |-> <<>>,
    phoneNumbers |-> <<>>,
    phishingLinks |-> <<>>,
    shortenedLinks |-> <<<<"b","i","t",".","l","y">>>>,
    keywords |-> {<<"i","m","m","e","d","i","a","t","e","l","y">>, <<"e","x","p","i","r","e">>, <<"u","p","d","a","t","e">>} ]

\* Call 9876543210 immediately to verify
msgCall ==
  [ id |-> "msgCall",
    matches |-> <<0,0,0,0,0,0>>,
    urgency |-> 1, authority |-> 0, action |-> 1, high_risk |-> 1,
    upiIds |-> <<>>,
    bankAccounts |-> <<>>,
    phoneNumbers |-> <<<<"9","8","7","6","5","4","3","2","1","0">>>>,
    phishingLinks |-> <<>>,
    shortenedLinks |-> <<>>,
    keywords |-> {<<"i","m","m","e","d","i","a","t","e","l","y">>, <<"v","e","r","i","f","y">>} ]

\* Last warning! Send payment or account suspended
msgWarning ==
  [ id |-> "msgWarning",
    matches |-> <<0,1,0,0,0,0>>,
    urgency |-> 1, authority |-> 0, action |-> 2, high_risk |-> 1,
    upiIds |-> <<>>,
    bankAccounts |-> <<>>,
    phoneNumbers |-> <<>>,
    phishingLinks |-> <<>>,
    shortenedLinks |-> <<>>,
    keywords |-> {<<"p","a","y">>, <<"s","e","n","d">>, <<"s","u","s","p","e","n","d","e","d">>, <<"a","c","c","o","u","n","t">>, <<"p","a","y","m","e","n","t">>} ]

\* Pay at http://Evil.com/kyc
msgEvilUpper ==
  [ id |-> "msgEvilUpper",
    matches |-> <<0,0,0,0,0,0>>,
    urgency |-> 0, authority |-> 0, action |-> 1, high_risk |-> 1,
    upiIds |-> <<>>,
    bankAccounts |-> <<>>,
    phoneNumbers |-> <<>>,
    phishingLinks |-> <<<<"h","t","t","p",":","/","/","E","v","i","l",".","c","o","m">>>>,
    shortenedLinks |-> <<>>,
    keywords |-> {<<"p","a","y">>} ]

\* Pay at http://evil.com/kyc
msgEvilLower ==
  [ id |-> "msgEvilLower",
    matches |-> <<0,0,0,0,0,0>>,
    urgency |-> 0, authority |-> 0, action |-> 1, high_risk |-> 1,
    upiIds |-> <<>>,
    bankAccounts |-> <<>>,
    phoneNumbers |-> <<>>,
    phishingLinks |-> <<<<"h","t","t","p",":","/","/","e","v","i","l",".","c","o","m">>>>,
    shortenedLinks |-> <<>>,
    keywords |-> {<<"p","a","y">>} ]

\* send to rahul.k@paytm now
msgRahul ==
  [ id |-> "msgRahul",
    matches |-> <<1,0,0,0,0,0>>,
    urgency |-> 1, authority |-> 0, action |-> 2, high_risk |-> 0,
    upiIds |-> <<<<"p","a","y","t","m">>>>,
    bankAccounts |-> <<>>,
    phoneNumbers |-> <<>>,
    phishingLinks |-> <<>>,
    shortenedLinks |-> <<>>,
    keywords |-> {<<"n","o","w">>, <<"p","a","y">>, <<"s","e","n","d">>} ]

\* transfer to a/c 123456789012
msgAccount ==
  [ id |-> "msgAccount",
    matches |-> <<1,0,0,0,0,0>>,
    urgency |-> 0, authority |-> 0, action |-> 1, high_risk |-> 0,
    upiIds |-> <<>>,
    bankAccounts |-> <<<<"1","2","3","4","5","6","7","8","9","0","1","2">>>>,
    phoneNumbers |-> <<>>,
    phishingLinks |-> <<>>,
    shortenedLinks |-> <<>>,
    keywords |-> {<<"t","r","a","n","s","f","e","r">>} ]

Messages ==
  {msgHello, msgKycUpi, msgKycLink, msgCall, msgWarning, msgEvilUpper, msgEvilLower, msgRahul, msgAccount}

HistoryFlags ==
  BOOLEAN

-----------------------------------------------------------------------------
(* Scam classifier (detector.py) *)

\* confidence 1.0 in units of 1/4200
ConfOne ==
  4200

Categories ==
  <<"UPI_FRAUD", "KYC_FRAUD", "ELECTRICITY_SCAM", "COURIER_SCAM", "JOB_SCAM", "LOTTERY_PRIZE">>

\* len(patterns) of each category of SCAM_PATTERNS
PatternCount ==
  <<7, 6, 5, 5, 5, 5>>

URGENCY_KEYWORDS_LEN ==
  14

AUTHORITY_KEYWORDS_LEN ==
  10

SUSPICIOUS_ACTIONS_LEN ==
  12

\* scores[category] = matches / len(patterns)
CategoryScore(m, i) ==
  (m.matches[i] * ConfOne) \div PatternCount[i]

\* variant of PrimaryCategory: of several categories of maximal score the last one
PrimaryCategory_LastOfTies(m) ==
  CHOOSE i \in DOMAIN Categories :
    /\ m.matches[i] > 0
    /\ \A j \in DOMAIN Categories : CategoryScore(m, j) <= CategoryScore(m, i)
    /\ \A j \in DOMAIN Categories : j > i => CategoryScore(m, j) < CategoryScore(m, i)

\* max(scores, key=scores.get): the first category, in dict order, of maximal score
PrimaryCategory(m) ==
  CHOOSE i \in DOMAIN Categories :
    /\ m.matches[i] > 0
    /\ \A j \in DOMAIN Categories : CategoryScore(m, j) <= CategoryScore(m, i)
    /\ \A j \in DOMAIN Categories : j < i => CategoryScore(m, j) < CategoryScore(m, i)

Max(a, b) ==
  IF a >= b THEN a ELSE b

Min(a, b) ==
  IF a <= b THEN a ELSE b

\* variant of CategoryConfidence: a tripled score above 1.5 falls back to the floor
CategoryConfidence_FloorAboveOne(m, i) ==
  IF CategoryScore(m, i) > 0
  THEN IF CategoryScore(m, i) * 2 > ConfOne
       THEN (6 * ConfOne) \div 10
       ELSE Max((6 * ConfOne) \div 10, CategoryScore(m, i) * 3)
  ELSE 0

\* category_confidence of a category whose score is scores[category]:
\* max(0.6, score * 3) if any pattern matched, else 0.0
CategoryConfidence(m, i) ==
  IF CategoryScore(m, i) > 0
  THEN Max((6 * ConfOne) \div 10, CategoryScore(m, i) * 3)
  ELSE 0

\* final_confidence before the boosts: category * 0.7 + ((u + a + s) / 3) * 0.3
CombinedConfidence(m) ==
  LET hasScores == \E i \in DOMAIN Categories : m.matches[i] > 0
      category_confidence == IF hasScores
                             THEN CategoryConfidence(m, PrimaryCategory(m))
                             ELSE 0
      urgency_score == (m.urgency * ConfOne) \div URGENCY_KEYWORDS_LEN
      authority_score == (m.authority * ConfOne) \div AUTHORITY_KEYWORDS_LEN
      action_score == (m.action * ConfOne) \div SUSPICIOUS_ACTIONS_LEN
  IN (category_confidence * 7 + (urgency_score + authority_score + action_score)) \div 10

\* if urgency_score > 0.1 and authority_score > 0.05
UrgencyWithAuthority(m) ==
  LET urgency_score == (m.urgency * ConfOne) \div URGENCY_KEYWORDS_LEN
      authority_score == (m.authority * ConfOne) \div AUTHORITY_KEYWORDS_LEN
  IN urgency_score * 10 > ConfOne /\ authority_score * 20 > ConfOne

\* final_confidence = min(1.0, final_confidence + 0.15)
BoostForSignals(final_confidence) ==
  Min(ConfOne, final_confidence + (15 * ConfOne) \div 100)

\* final_confidence = min(1.0, final_confidence + 0.1)
BoostForHighRisk(final_confidence) ==
  Min(ConfOne, final_confidence + ConfOne \div 10)

RuleBasedDetection(m) ==
  LET hasScores == \E i \in DOMAIN Categories : m.matches[i] > 0
      scam_type == IF hasScores THEN Categories[PrimaryCategory(m)] ELSE "GENERIC_FRAUD"
      base == CombinedConfidence(m)
      boosted1 == IF UrgencyWithAuthority(m) THEN BoostForSignals(base) ELSE base
      boosted2 == IF m.high_risk >= 2 THEN BoostForHighRisk(boosted1) ELSE boosted1
  IN [confidence |-> boosted2, scam_type |-> scam_type]

\* variant of Detect: the history does not lower the threshold
Detect_HistoryIgnored(m, hist) ==
  LET rule_result == RuleBasedDetection(m)
  IN IF rule_result.confidence * 10 > 2 * ConfOne
     THEN [is_scam |-> TRUE, confidence |-> rule_result.confidence,
           scam_type |-> rule_result.scam_type]
     ELSE [is_scam |-> FALSE, confidence |-> rule_result.confidence, scam_type |-> "NONE"]

\* detect(message, conversation_history); hist: the history is non-empty
Detect(m, hist) ==
  LET rule_result == RuleBasedDetection(m)
  IN IF rule_result.confidence * 10 > 2 * ConfOne
     THEN [is_scam |-> TRUE, confidence |-> rule_result.confidence,
           scam_type |-> rule_result.scam_type]
     ELSE IF hist /\ rule_result.confidence * 10 > ConfOne
     THEN [is_scam |-> TRUE, confidence |-> rule_result.confidence,
           scam_type |-> rule_result.scam_type]
     ELSE [is_scam |-> FALSE, confidence |-> rule_result.confidence, scam_type |-> "NONE"]

-----------------------------------------------------------------------------
(* Intelligence extractor (extractor.py) *)

RECURSIVE DedupFrom(_, _, _)
DedupFrom(items, seen, result) ==
  IF items = <<>> THEN result
  ELSE LET item == Head(items)
           item_lower == Lower(item)
       IN IF item_lower \notin seen
          THEN DedupFrom(Tail(items), seen \cup {item_lower}, Append(result, item))
          ELSE DedupFrom(Tail(items), seen, result)

\* _deduplicate: case-insensitive, first occurrence wins, order preserved
Deduplicate(items) ==
  DedupFrom(items, {}, <<>>)

IsDigit(c) ==
  c \in DigitChars

StartsWith(s, p) ==
  /\ Len(s) >= Len(p)
  /\ SubSeq(s, 1, Len(p)) = p

\* variant of NormalizePhone: a leading 0 is kept
NormalizePhone_KeepLeadingZero(phone) ==
  LET digits0 == SelectSeq(phone, IsDigit)
      digits2 == IF StartsWith(digits0, <<"9","1">>) /\ Len(digits0) > 10
                 THEN SubSeq(digits0, 3, Len(digits0)) ELSE digits0
  IN IF Len(digits2) = 10 /\ digits2[1] \in {"7","8","9"}
     THEN <<(<<"+","9","1">> \o digits2)>>
     ELSE <<>>

\* one iteration of the loop of _normalize_phones: <<>> when the match is dropped
NormalizePhone(phone) ==
  LET digits0 == SelectSeq(phone, IsDigit)
      digits1 == IF StartsWith(digits0, <<"0">>) THEN Tail(digits0) ELSE digits0
      digits2 == IF StartsWith(digits1, <<"9","1">>) /\ Len(digits1) > 10
                 THEN SubSeq(digits1, 3, Len(digits1)) ELSE digits1
  IN IF Len(digits2) = 10 /\ digits2[1] \in {"7","8","9"}
     THEN <<(<<"+","9","1">> \o digits2)>>
     ELSE <<>>

RECURSIVE NormalizePhones(_)
NormalizePhones(phones) ==
  IF phones = <<>> THEN <<>>
  ELSE NormalizePhone(Head(phones)) \o NormalizePhones(Tail(phones))

HttpPrefix ==
  <<"h","t","t","p",":","/","/">>

RECURSIVE KeywordsFrom(_, _, _)
KeywordsFrom(keywords, contained, found) ==
  IF keywords = <<>> THEN found
  ELSE LET keyword == Head(keywords)
       IN IF keyword \in contained /\ keyword \notin Range(found)
          THEN KeywordsFrom(Tail(keywords), contained, Append(found, keyword))
          ELSE KeywordsFrom(Tail(keywords), contained, found)

\* _extract_keywords
ExtractKeywords(m) ==
  KeywordsFrom(KEYWORD_CATEGORIES, m.keywords, <<>>)

\* extract(text)
Extract(m) ==
  [ upiIds |-> Deduplicate(m.upiIds),
    bankAccounts |-> Deduplicate(m.bankAccounts),
    phoneNumbers |-> Deduplicate(NormalizePhones(m.phoneNumbers)),
    phishingLinks |->
      Deduplicate(m.phishingLinks
                  \o [i \in DOMAIN m.shortenedLinks |-> HttpPrefix \o m.shortenedLinks[i]]),
    suspiciousKeywords |-> ExtractKeywords(m) ]

-----------------------------------------------------------------------------
(* Session store (memory.py) *)

\* the key "finalized_at" is absent
NoTime ==
  -1

NewSession(session_id, hist, t) ==
  [ session_id |-> session_id,
    created_at |-> t,
    turn_count |-> 0,
    scam_detected |-> FALSE,
    scam_confidence |-> 0,
    scam_type |-> "UNKNOWN",
    extracted_intelligence |-> [k \in IntelKeys |-> {}],
    conversation_history |-> hist,
    persona_state |-> [current_persona |-> "elderly_rajesh", confusion_level |-> 7,
                       trust_level |-> 8, concern_level |-> 3],
    last_message_time |-> t,
    finalized |-> FALSE,
    finalized_at |-> NoTime ]

\* variant of StoreAfterGetOrCreate: the session is built anew on every call
StoreAfterGetOrCreate_Recreate(store, session_id, hist, t) ==
  (session_id :> NewSession(session_id, hist, t)) @@
  [sid \in DOMAIN store \ {session_id} |-> store[sid]]

\* get_or_create_session: the store after the call
StoreAfterGetOrCreate(store, session_id, hist, t) ==
  IF session_id \in DOMAIN store
  THEN store
  ELSE (session_id :> NewSession(session_id, hist, t)) @@ store

\* delete_session: the store after the call
StoreAfterDelete(store, session_id) ==
  [sid \in DOMAIN store \ {session_id} |-> store[sid]]

\* variant of ToDelete: a session exactly max_age_hours old is removed too
ToDelete_AtThreshold(store, t, max_age_hours) ==
  {sid \in DOMAIN store : t - store[sid].created_at >= max_age_hours}

\* cleanup_old_sessions: the identifiers whose age_hours > max_age_hours
\* (the clock counts hours)
ToDelete(store, t, max_age_hours) ==
  {sid \in DOMAIN store : t - store[sid].created_at > max_age_hours}

RECURSIVE DeleteAll(_, _)
\* for session_id in to_delete: self.delete_session(session_id)
DeleteAll(store, to_delete) ==
  IF to_delete = {} THEN store
  ELSE LET session_id == CHOOSE sid \in to_delete : TRUE
       IN DeleteAll(StoreAfterDelete(store, session_id), to_delete \ {session_id})

\* cleanup_old_sessions: the store after the call and the value returned
CleanupOldSessions(store, t, max_age_hours) ==
  LET to_delete == ToDelete(store, t, max_age_hours)
  IN [store |-> DeleteAll(store, to_delete), removed |-> Cardinality(to_delete)]

\* no method of the store was called directly in the latest step
NoStoreCall ==
  [op |-> "none", session_id |-> "none", max_age_hours |-> 0,
   removed |-> 0, returned |-> NewSession("none", FALSE, NoTime),
   previous |-> [op |-> "none", max_age_hours |-> 0, removed |-> 0]]

\* update_session
UpdateSession(store, session_id, session_data) ==
  IF session_id \in DOMAIN store
  THEN [store EXCEPT ![session_id] = session_data]
  ELSE store

-----------------------------------------------------------------------------
(* Orchestrator (orchestrator.py) *)

MAX_CONVERSATION_TURNS ==
  15

NeutralReply ==
  "Thank you for your message. Have a nice day!"

\* replies generate_response may return (random choice from a pool, or the generator's text)
PersonaReplies ==
  {"Beta, what is this? I don't understand. Why are you saying this?",
   "I'm not understanding what you're saying. Can you speak slowly?"}

\* what awaiting send_final_result does: returns True, returns False, raises
ReporterOutcomes ==
  {"ok", "fail", "raise"}

\* variant of NeedsDetection: the guard on the turn count is dropped
NeedsDetection_EveryMessage(session) ==
  TRUE

\* Step 2 guard: if session["turn_count"] == 0
NeedsDetection(session) ==
  session.turn_count = 0

\* Step 2: the classification is stored in the session
StoreDetection(session, det) ==
  [session EXCEPT !.scam_detected = det.is_scam,
                  !.scam_confidence = det.confidence,
                  !.scam_type = det.scam_type]

\* variant of ClearlyNotScam: the flag is tested with the wrong polarity
ClearlyNotScam_WrongFlag(det) ==
  /\ det.is_scam
  /\ det.confidence * 10 < ConfOne

\* if not is_scam and confidence < 0.1
ClearlyNotScam(det) ==
  /\ ~det.is_scam
  /\ det.confidence * 10 < ConfOne

\* variant of EngageAnyway: the flag is overridden, the confidence is left as classified
EngageAnyway_NoBoost(session, det) ==
  IF ~det.is_scam
  THEN [session EXCEPT !.scam_detected = TRUE]
  ELSE session

\* variant of EngageAnyway: the confidence is raised, the flag is left as classified
EngageAnyway_FlagKept(session, det) ==
  IF ~det.is_scam
  THEN [session EXCEPT !.scam_confidence = Max(ConfOne \div 2, det.confidence)]
  ELSE session

\* borderline: if not is_scam, engage as if scam with confidence max(0.5, confidence)
EngageAnyway(session, det) ==
  IF ~det.is_scam
  THEN [session EXCEPT !.scam_detected = TRUE,
                       !.scam_confidence = Max(ConfOne \div 2, det.confidence)]
  ELSE session

\* variant of MergeIntelligence: the new values replace the accumulated ones
MergeIntelligence_Overwrite(existing, new) ==
  [key \in IntelKeys |-> Range(new[key])]

\* _merge_intelligence: list(set(existing) | set(new)) for each key
MergeIntelligence(existing, new) ==
  [key \in IntelKeys |-> existing[key] \cup Range(new[key])]

\* variant of UpdateSessionState: the increment is forgotten
UpdateSessionState_NoIncrement(session, t) ==
  [session EXCEPT !.last_message_time = t]

\* Step 5: turn count and last-activity timestamp
UpdateSessionState(session, t) ==
  [session EXCEPT !.turn_count = @ + 1, !.last_message_time = t]

\* variant of ShouldEndConversation: rule 2 fires from the first turn on
ShouldEndConversation_EntityAtOnce(session) ==
  LET intelligence == session.extracted_intelligence
      turn_count == session.turn_count
      total_entities == Cardinality(intelligence["upiIds"])
                        + Cardinality(intelligence["phishingLinks"])
                        + Cardinality(intelligence["bankAccounts"])
                        + Cardinality(intelligence["phoneNumbers"])
  IN \/ turn_count >= 1 /\ total_entities >= 1
     \/ turn_count >= 3

\* variant of ShouldEndConversation: rule 3 (engagement alone) is missing
ShouldEndConversation_NoEngagementRule(session) ==
  LET intelligence == session.extracted_intelligence
      turn_count == session.turn_count
      has_upi == Cardinality(intelligence["upiIds"]) > 0
      has_link == Cardinality(intelligence["phishingLinks"]) > 0
      total_entities == Cardinality(intelligence["upiIds"])
                        + Cardinality(intelligence["phishingLinks"])
                        + Cardinality(intelligence["bankAccounts"])
                        + Cardinality(intelligence["phoneNumbers"])
  IN \/ (has_upi \/ has_link) /\ turn_count >= 1
     \/ turn_count >= 2 /\ total_entities >= 1
     \/ turn_count >= MAX_CONVERSATION_TURNS

\* variant of ShouldEndConversation: rule 1 waits for a second turn
ShouldEndConversation_CriticalAfterTwo(session) ==
  LET intelligence == session.extracted_intelligence
      turn_count == session.turn_count
      has_upi == Cardinality(intelligence["upiIds"]) > 0
      has_link == Cardinality(intelligence["phishingLinks"]) > 0
      total_entities == Cardinality(intelligence["upiIds"])
                        + Cardinality(intelligence["phishingLinks"])
                        + Cardinality(intelligence["bankAccounts"])
                        + Cardinality(intelligence["phoneNumbers"])
  IN \/ (has_upi \/ has_link) /\ turn_count >= 2
     \/ turn_count >= 2 /\ total_entities >= 1
     \/ turn_count >= 3
     \/ turn_count >= MAX_CONVERSATION_TURNS

\* variant of ShouldEndConversation: rule 3 waits for a fourth turn
ShouldEndConversation_EngagementAfterFour(session) ==
  LET intelligence == session.extracted_intelligence
      turn_count == session.turn_count
      has_upi == Cardinality(intelligence["upiIds"]) > 0
      has_link == Cardinality(intelligence["phishingLinks"]) > 0
      total_entities == Cardinality(intelligence["upiIds"])
                        + Cardinality(intelligence["phishingLinks"])
                        + Cardinality(intelligence["bankAccounts"])
                        + Cardinality(intelligence["phoneNumbers"])
  IN IF (has_upi \/ has_link) /\ turn_count >= 1 THEN TRUE
     ELSE IF turn_count >= 2 /\ total_entities >= 1 THEN TRUE
     ELSE IF turn_count >= 4 THEN TRUE
     ELSE IF turn_count >= MAX_CONVERSATION_TURNS THEN TRUE
     ELSE FALSE

\* _should_end_conversation
ShouldEndConversation(session) ==
  LET intelligence == session.extracted_intelligence
      turn_count == session.turn_count
      has_upi == Cardinality(intelligence["upiIds"]) > 0
      has_link == Cardinality(intelligence["phishingLinks"]) > 0
      total_entities == Cardinality(intelligence["upiIds"])
                        + Cardinality(intelligence["phishingLinks"])
                        + Cardinality(intelligence["bankAccounts"])
                        + Cardinality(intelligence["phoneNumbers"])
  IN IF (has_upi \/ has_link) /\ turn_count >= 1 THEN TRUE
     ELSE IF turn_count >= 2 /\ total_entities >= 1 THEN TRUE
     ELSE IF turn_count >= 3 THEN TRUE
     ELSE IF turn_count >= MAX_CONVERSATION_TURNS THEN TRUE
     ELSE FALSE

\* _generate_agent_notes: the values the note text is formatted from
GenerateAgentNotes(session) ==
  [ scam_type |-> session.scam_type,
    turns |-> session.turn_count,
    upi_ids |-> Cardinality(session.extracted_intelligence["upiIds"]),
    links |-> Cardinality(session.extracted_intelligence["phishingLinks"]) ]

\* variant of BuildPayload: the turn of the finalizing message is not counted
BuildPayload_TurnsBefore(session_id, session) ==
  [ sessionId |-> session_id,
    scamDetected |-> session.scam_detected,
    totalMessagesExchanged |-> session.turn_count - 1,
    extractedIntelligence |-> session.extracted_intelligence,
    agentNotes |-> GenerateAgentNotes(session) ]

\* FinalResultPayload built in _finalize_and_callback
BuildPayload(session_id, session) ==
  [ sessionId |-> session_id,
    scamDetected |-> session.scam_detected,
    totalMessagesExchanged |-> session.turn_count,
    extractedIntelligence |-> session.extracted_intelligence,
    agentNotes |-> GenerateAgentNotes(session) ]

\* variant of FinalizeAndCallback: the already-finalized check is missing
FinalizeAndCallback_NoGuard(session_id, session, t, outcome) ==
  LET marked == [session EXCEPT !.finalized = TRUE, !.finalized_at = t]
  IN [session |-> marked,
      sent |-> <<[payload |-> BuildPayload(session_id, marked), outcome |-> outcome]>>]

\* variant of FinalizeAndCallback: the timestamp is written before the check
FinalizeAndCallback_Restamp(session_id, session, t, outcome) ==
  LET marked == [session EXCEPT !.finalized = TRUE, !.finalized_at = t]
  IN IF session.finalized
     THEN [session |-> marked, sent |-> <<>>]
     ELSE [session |-> marked,
           sent |-> <<[payload |-> BuildPayload(session_id, marked), outcome |-> outcome]>>]

\* variant of FinalizeAndCallback: the session is marked only when the Reporter succeeded
FinalizeAndCallback_MarkOnSuccess(session_id, session, t, outcome) ==
  IF session.finalized
  THEN [session |-> session, sent |-> <<>>]
  ELSE LET marked == [session EXCEPT !.finalized = TRUE, !.finalized_at = t]
       IN [session |-> IF outcome = "ok" THEN marked ELSE session,
           sent |-> <<[payload |-> BuildPayload(session_id, session), outcome |-> outcome]>>]

\* variant of FinalizeAndCallback: the flag is set only after the awaited send
FinalizeAndCallback_SetAfterAwait(session_id, session, t, outcome) ==
  IF session.finalized
  THEN [session |-> session, sent |-> <<>>]
  ELSE [session |-> session,
        sent |-> <<[payload |-> BuildPayload(session_id, session), outcome |-> outcome]>>]

\* _finalize_and_callback: the session it leaves and the Reporter invocations it makes
FinalizeAndCallback(session_id, session, t, outcome) ==
  IF session.finalized
  THEN [session |-> session, sent |-> <<>>]
  ELSE LET marked == [session EXCEPT !.finalized = TRUE, !.finalized_at = t]
       IN [session |-> marked,
           sent |-> <<[payload |-> BuildPayload(session_id, marked), outcome |-> outcome]>>]

NoDetect ==
  [ran |-> FALSE, sessionId |-> "none", is_scam |-> FALSE, confidence |-> 0,
   scam_type |-> "NONE"]

Bump(counter, sid, n) ==
  [counter EXCEPT ![sid] = @ + n]

\* extract(text) and detect(text, history) of each message, computed once
ExtractOf ==
  [m \in Messages |-> Extract(m)]

DetectOf ==
  [m \in Messages |-> [hist \in HistoryFlags |-> Detect(m, hist)]]

\* process_message up to the early return: load, classify, store the classification
\* (Steps 1 and 2)
LoadAndClassify(store, session_id, m, hist, t) ==
  LET store0 == StoreAfterGetOrCreate(store, session_id, hist, t)
      session0 == store0[session_id]
      detects == NeedsDetection(session0)
      det == DetectOf[m][hist]
  IN [ store |-> store0,
       detects |-> detects,
       det |-> det,
       neutral |-> detects /\ ClearlyNotScam(det),
       session |-> IF detects THEN StoreDetection(session0, det) ELSE session0 ]

\* process_message from Step 3 on, on the engaged path (Steps 4 to 6)
Engage(session_id, c, m, t, outcome) ==
  LET session2 == IF c.detects THEN EngageAnyway(c.session, c.det) ELSE c.session
      extracted == ExtractOf[m]
      session3 == [session2 EXCEPT !.extracted_intelligence =
                                     MergeIntelligence(@, extracted)]
      session4 == UpdateSessionState(session3, t)
      should_end == ShouldEndConversation(session4)
      fin == IF should_end
             THEN FinalizeAndCallback(session_id, session4, t, outcome)
             ELSE [session |-> session4, sent |-> <<>>]
  IN [ extracted |-> extracted,
       should_end |-> should_end,
       newly_finalized |-> ~session4.finalized /\ fin.session.finalized,
       session |-> fin.session,
       sent |-> fin.sent ]

\* variant of EngagedResponse: a failed report is turned into an error response
EngagedResponse_ErrorOnFailedReport(session_id, reply, sent) ==
  IF \E i \in DOMAIN sent : sent[i].outcome # "ok"
  THEN [sessionId |-> session_id, status |-> "error", reply |-> "error"]
  ELSE [sessionId |-> session_id, status |-> "success", reply |-> reply]

\* the AgentResponse process_message returns on the engaged path, after Steps 4
\* to 6 made the Reporter invocations sent
EngagedResponse(session_id, reply, sent) ==
  [sessionId |-> session_id, status |-> "success", reply |-> reply]

\* process_message(request), one call processed from its entry to its return
ProcessMessage(session_id, m, hist) ==
  /\ calls[session_id] < MaxCalls
  /\ LET c == LoadAndClassify(sessions, session_id, m, hist, now)
     IN /\ calls' = Bump(calls, session_id, 1)
        /\ detectCalls' = Bump(detectCalls, session_id, IF c.detects THEN 1 ELSE 0)
        /\ lastDetect' = IF c.detects
                         THEN [ran |-> TRUE, sessionId |-> session_id,
                               is_scam |-> c.det.is_scam, confidence |-> c.det.confidence,
                               scam_type |-> c.det.scam_type]
                         ELSE NoDetect
        /\ IF c.neutral
           THEN /\ sessions' = UpdateSession(c.store, session_id, c.session)
                /\ response' = [sessionId |-> session_id, status |-> "success",
                                reply |-> NeutralReply]
                /\ generated' = "none"
                /\ UNCHANGED <<respondCalls, extractCalls, extractedLog,
                               finalizeAttempts, flagSets, reporterLog>>
           ELSE \E reply \in PersonaReplies :
                \E outcome \in ReporterOutcomes :
                  LET e == Engage(session_id, c, m, now, outcome)
                  IN \* the Reporter's answer is an input only of a call that invokes it
                     /\ e.sent = <<>> => outcome = "ok"
                     /\ sessions' = UpdateSession(c.store, session_id, e.session)
                     /\ respondCalls' = Bump(respondCalls, session_id, 1)
                     /\ extractCalls' = Bump(extractCalls, session_id, 1)
                     /\ extractedLog' =
                          [extractedLog EXCEPT ![session_id] =
                             [key \in IntelKeys |-> @[key] \cup Range(e.extracted[key])]]
                     /\ finalizeAttempts' =
                          Bump(finalizeAttempts, session_id,
                               IF e.should_end THEN 1 ELSE 0)
                     /\ flagSets' =
                          Bump(flagSets, session_id,
                               IF e.newly_finalized THEN 1 ELSE 0)
                     /\ reporterLog' = [reporterLog EXCEPT ![session_id] = @ \o e.sent]
                     /\ generated' = reply
                     /\ response' = EngagedResponse(session_id, reply, e.sent)
  /\ now' = now + 1
  /\ UNCHANGED <<llmProvider, tasks, sender, detection, extraction, generation>>
  /\ storeCall' = NoStoreCall

\* detect not called yet
NoCall ==
  [text |-> "none", hist |-> FALSE,
   patterns |-> [i \in DOMAIN Categories |-> {}],
   category_confidence |-> [i \in DOMAIN Categories |-> 0],
   boosts |-> [signals |-> [applied |-> FALSE, from |-> 0, to |-> 0],
               high_risk |-> [applied |-> FALSE, from |-> 0, to |-> 0]],
   computed |-> [confidence |-> 0, scam_type |-> "none"],
   returned |-> [is_scam |-> FALSE, confidence |-> 0, scam_type |-> "none"]]

\* extract not called yet
NoExtraction ==
  [text |-> "none",
   matched |-> [upiIds |-> <<>>, phoneNumbers |-> <<>>, shortenedLinks |-> <<>>],
   results |-> [key \in IntelKeys |-> <<>>]]

\* generate_response not called yet
NoGeneration ==
  [called |-> FALSE, scammer_message |-> <<>>, turn_count |-> 0,
   llm |-> [kind |-> "none", content |-> [leading |-> 0, text |-> "", trailing |-> 0]],
   raised |-> FALSE, rule_based |-> FALSE,
   returned |-> [leading |-> 0, text |-> "", trailing |-> 0]]

\* send_final_result not called yet
IdleSender ==
  [pc |-> "idle", attempt |-> 0, log |-> <<>>, result |-> "pending"]

\* a coroutine that was not created yet
IdleTask ==
  [pc |-> "idle", session_id |-> "none", m |-> "none", reply |-> "none", report |-> 0]

-----------------------------------------------------------------------------
(* Specification: messages processed one at a time *)

Init ==
  /\ sessions = <<>>
  /\ now = 0
  /\ calls = [sid \in SessionIds |-> 0]
  /\ detectCalls = [sid \in SessionIds |-> 0]
  /\ respondCalls = [sid \in SessionIds |-> 0]
  /\ extractCalls = [sid \in SessionIds |-> 0]
  /\ extractedLog = [sid \in SessionIds |-> [key \in IntelKeys |-> {}]]
  /\ finalizeAttempts = [sid \in SessionIds |-> 0]
  /\ flagSets = [sid \in SessionIds |-> 0]
  /\ reporterLog = [sid \in SessionIds |-> <<>>]
  /\ lastDetect = NoDetect
  /\ response = [sessionId |-> "none", status |-> "none", reply |-> "none"]
  /\ generated = "none"
  /\ llmProvider = "fallback"
  /\ tasks = [k \in TaskIds |-> IdleTask]
  /\ sender = IdleSender
  /\ detection = [last |-> NoCall, before |-> NoCall]
  /\ extraction = NoExtraction
  /\ storeCall = NoStoreCall
  /\ generation = NoGeneration

Next ==
  \E session_id \in SessionIds, m \in Messages, hist \in HistoryFlags :
    ProcessMessage(session_id, m, hist)

Spec ==
  Init /\ [][Next]_vars

-----------------------------------------------------------------------------
(* Specification: overlapping process_message coroutines on one event loop. *)
(* A coroutine runs without interruption from one await that suspends to    *)
(* the next: the generator call of _try_llm_response (only when groq is     *)
(* configured) and send_final_result. detect awaits nothing that suspends.  *)
(* Every coroutine of a session identifier holds the same session dict, the *)
(* one get_or_create_session returned and update_session stores again, so a *)
(* write to it is a write to the store.                                     *)

\* messages sent while requests overlap
ConcurrentMessages ==
  {msgHello, msgKycLink, msgCall}

\* settings.LLM_PROVIDER, as far as _try_llm_response distinguishes it
LlmProviders ==
  {"fallback", "groq"}

MessageOf(id) ==
  CHOOSE m \in Messages : m.id = id

\* a coroutine that returned or was cancelled
EndedTask(pc, session_id) ==
  [pc |-> pc, session_id |-> session_id, m |-> "none", reply |-> "none", report |-> 0]

\* variant of CancelAtReporter: the abort undoes the finalization
CancelAtReporter_Rollback(store, session_id) ==
  [store EXCEPT ![session_id] = [@ EXCEPT !.finalized = FALSE, !.finalized_at = NoTime]]

\* the store after CancelledError is thrown into a coroutine suspended in
\* send_final_result: it is not an Exception, no handler runs, nothing is written
CancelAtReporter(store, session_id) ==
  store

\* variant of HeldSession: the coroutine resumes with a private copy whose turn
\* count is the one of a new session
HeldSession_StaleCopy(store, session_id) ==
  [store[session_id] EXCEPT !.turn_count = 0]

\* the session a resumed coroutine holds: the dict get_or_create_session returned,
\* which is the stored one, with every write made meanwhile
HeldSession(store, session_id) ==
  store[session_id]

\* Steps 4 to 6 of a coroutine, from the return of generate_response to the
\* await of send_final_result or, when nothing is sent, to the return
FinishTurn(k, session_id, c, m, reply, invoked) ==
  LET e == Engage(session_id, c, m, now, "pending")
  IN /\ sessions' = UpdateSession(c.store, session_id, e.session)
     /\ respondCalls' = Bump(respondCalls, session_id, invoked)
     /\ extractCalls' = Bump(extractCalls, session_id, 1)
     /\ extractedLog' =
          [extractedLog EXCEPT ![session_id] =
             [key \in IntelKeys |-> @[key] \cup Range(e.extracted[key])]]
     /\ finalizeAttempts' =
          Bump(finalizeAttempts, session_id, IF e.should_end THEN 1 ELSE 0)
     /\ flagSets' = Bump(flagSets, session_id, IF e.newly_finalized THEN 1 ELSE 0)
     /\ reporterLog' = [reporterLog EXCEPT ![session_id] = @ \o e.sent]
     /\ generated' = reply
     /\ IF e.sent = <<>>
        THEN /\ response' = EngagedResponse(session_id, reply, e.sent)
             /\ tasks' = [tasks EXCEPT ![k] = EndedTask("done", session_id)]
        ELSE /\ UNCHANGED response
             /\ tasks' = [tasks EXCEPT ![k] =
                            [pc |-> "reporter", session_id |-> session_id, m |-> "none",
                             reply |-> reply,
                             report |-> Len(reporterLog[session_id]) + Len(e.sent)]]

\* process_message from its entry to its first suspension or its return
StartTask(k, session_id, m, hist) ==
  /\ tasks[k].pc = "idle"
  /\ \A j \in TaskIds : j < k => tasks[j].pc # "idle"
  /\ LET c == LoadAndClassify(sessions, session_id, m, hist, now)
     IN /\ calls' = Bump(calls, session_id, 1)
        /\ detectCalls' = Bump(detectCalls, session_id, IF c.detects THEN 1 ELSE 0)
        /\ lastDetect' = IF c.detects
                         THEN [ran |-> TRUE, sessionId |-> session_id,
                               is_scam |-> c.det.is_scam, confidence |-> c.det.confidence,
                               scam_type |-> c.det.scam_type]
                         ELSE NoDetect
        /\ IF c.neutral
           THEN /\ sessions' = UpdateSession(c.store, session_id, c.session)
                /\ response' = [sessionId |-> session_id, status |-> "success",
                                reply |-> NeutralReply]
                /\ generated' = "none"
                /\ tasks' = [tasks EXCEPT ![k] = EndedTask("done", session_id)]
                /\ UNCHANGED <<respondCalls, extractCalls, extractedLog,
                               finalizeAttempts, flagSets, reporterLog>>
           ELSE IF llmProvider = "groq"
                THEN \* suspended in the generator call; Step 2 wrote into the stored dict
                     /\ sessions' =
                          [c.store EXCEPT ![session_id] =
                             IF c.detects THEN EngageAnyway(c.session, c.det)
                                          ELSE c.session]
                     /\ respondCalls' = Bump(respondCalls, session_id, 1)
                     /\ tasks' = [tasks EXCEPT ![k] =
                                    [pc |-> "generator", session_id |-> session_id,
                                     m |-> m.id, reply |-> "none", report |-> 0]]
                     /\ UNCHANGED <<extractCalls, extractedLog, finalizeAttempts,
                                    flagSets, reporterLog, response, generated>>
                ELSE \E reply \in PersonaReplies :
                       FinishTurn(k, session_id, c, m, reply, 1)
  /\ now' = now + 1
  /\ UNCHANGED <<llmProvider, sender>>
  /\ UNCHANGED unitVars

\* the generator call returned (its text, or nothing and the fallback pool is used)
AfterGenerator(k, reply) ==
  /\ tasks[k].pc = "generator"
  /\ LET session_id == tasks[k].session_id
         c == [store |-> sessions, detects |-> FALSE, det |-> NoDetect,
               neutral |-> FALSE, session |-> HeldSession(sessions, session_id)]
     IN FinishTurn(k, session_id, c, MessageOf(tasks[k].m), reply, 0)
  /\ now' = now + 1
  /\ UNCHANGED <<calls, detectCalls, lastDetect, llmProvider, sender>>
  /\ UNCHANGED unitVars

\* send_final_result returned or raised an Exception; process_message returns
AfterReporter(k, outcome) ==
  /\ tasks[k].pc = "reporter"
  /\ outcome \in ReporterOutcomes
  /\ LET session_id == tasks[k].session_id
         report == [reporterLog[session_id][tasks[k].report] EXCEPT !.outcome = outcome]
     IN /\ reporterLog' = [reporterLog EXCEPT ![session_id][tasks[k].report] = report]
        /\ response' = EngagedResponse(session_id, tasks[k].reply, <<report>>)
        /\ generated' = tasks[k].reply
        /\ tasks' = [tasks EXCEPT ![k] = EndedTask("done", session_id)]
  /\ now' = now + 1
  /\ UNCHANGED <<sessions, calls, detectCalls, respondCalls, extractCalls,
                 extractedLog, finalizeAttempts, flagSets, lastDetect, llmProvider,
                 sender>>
  /\ UNCHANGED unitVars

\* the transport layer aborts a suspended coroutine
CancelTask(k) ==
  /\ tasks[k].pc \in {"generator", "reporter"}
  /\ LET session_id == tasks[k].session_id
     IN IF tasks[k].pc = "reporter"
        THEN /\ sessions' = CancelAtReporter(sessions, session_id)
             /\ reporterLog' = [reporterLog EXCEPT
                                  ![session_id][tasks[k].report].outcome = "cancelled"]
             /\ tasks' = [tasks EXCEPT
                            ![k] = EndedTask("cancelled_at_reporter", session_id)]
        ELSE /\ UNCHANGED <<sessions, reporterLog>>
             /\ tasks' = [tasks EXCEPT
                            ![k] = EndedTask("cancelled_at_generator", session_id)]
  /\ now' = now + 1
  /\ UNCHANGED <<calls, detectCalls, respondCalls, extractCalls, extractedLog,
                 finalizeAttempts, flagSets, lastDetect, response, generated,
                 llmProvider, sender>>
  /\ UNCHANGED unitVars

InitConcurrent ==
  /\ sessions = <<>>
  /\ now = 0
  /\ calls = [sid \in SessionIds |-> 0]
  /\ detectCalls = [sid \in SessionIds |-> 0]
  /\ respondCalls = [sid \in SessionIds |-> 0]
  /\ extractCalls = [sid \in SessionIds |-> 0]
  /\ extractedLog = [sid \in SessionIds |-> [key \in IntelKeys |-> {}]]
  /\ finalizeAttempts = [sid \in SessionIds |-> 0]
  /\ flagSets = [sid \in SessionIds |-> 0]
  /\ reporterLog = [sid \in SessionIds |-> <<>>]
  /\ lastDetect = NoDetect
  /\ response = [sessionId |-> "none", status |-> "none", reply |-> "none"]
  /\ generated = "none"
  /\ llmProvider \in LlmProviders
  /\ tasks = [k \in TaskIds |-> IdleTask]
  /\ sender = IdleSender
  /\ detection = [last |-> NoCall, before |-> NoCall]
  /\ extraction = NoExtraction
  /\ storeCall = NoStoreCall
  /\ generation = NoGeneration

NextConcurrent ==
  \/ \E k \in TaskIds, session_id \in SessionIds, m \in ConcurrentMessages,
        hist \in HistoryFlags :
       StartTask(k, session_id, m, hist)
  \/ \E k \in TaskIds, reply \in PersonaReplies : AfterGenerator(k, reply)
  \/ \E k \in TaskIds, outcome \in ReporterOutcomes : AfterReporter(k, outcome)
  \/ \E k \in TaskIds : CancelTask(k)

SpecConcurrent ==
  InitConcurrent /\ [][NextConcurrent]_vars

-----------------------------------------------------------------------------
(* Specification: one call of send_final_result (callback.py). The call is  *)
(* suspended while the POST is awaited and while asyncio.sleep runs.        *)

max_retries ==
  3

\* what awaiting client.post gives: a response with a status code, or an exception
Statuses ==
  {200, 201, 302, 400, 404, 499, 500, 503}

AttemptOutcomes ==
  [kind : {"response"}, status : Statuses]
    \cup [kind : {"TimeoutException", "RequestError", "Exception"}, status : {0}]

\* response.status_code == 200
IsSuccess(outcome) ==
  outcome.kind = "response" /\ outcome.status = 200

\* variant of IsClientError: 400 itself is not in the range
IsClientError_Above400(outcome) ==
  outcome.kind = "response" /\ 400 < outcome.status /\ outcome.status < 500

\* 400 <= response.status_code < 500
IsClientError(outcome) ==
  outcome.kind = "response" /\ 400 <= outcome.status /\ outcome.status < 500

\* variant of ShouldWait: the wait follows every failed attempt
ShouldWait_AfterEveryFailure(attempt) ==
  TRUE

\* if attempt < max_retries
ShouldWait(attempt) ==
  attempt < max_retries

\* wait_time = 2 ** attempt
WaitTime(attempt) ==
  2 ^ attempt

\* variant of HasNextAttempt: the range has one more element
HasNextAttempt_OneMore(attempt) ==
  attempt + 1 <= max_retries + 1

\* for attempt in range(1, max_retries + 1): another iteration follows
HasNextAttempt(attempt) ==
  attempt + 1 <= max_retries

AttemptEvent(attempt, outcome) ==
  [event |-> "attempt", attempt |-> attempt, kind |-> outcome.kind,
   status |-> outcome.status, seconds |-> 0]

WaitEvent(attempt, seconds) ==
  [event |-> "wait", attempt |-> attempt, kind |-> "sleep", status |-> 0,
   seconds |-> seconds]

\* the loop goes to its next iteration, or is exhausted and False is returned
NextIteration(s) ==
  IF HasNextAttempt(s.attempt)
  THEN [s EXCEPT !.pc = "post", !.attempt = @ + 1]
  ELSE [s EXCEPT !.pc = "returned", !.result = "False"]

pipelineVars ==
  <<sessions, now, calls, detectCalls, respondCalls, extractCalls, extractedLog,
    finalizeAttempts, flagSets, reporterLog, lastDetect, response, generated,
    llmProvider, tasks>>

\* send_final_result(payload) is called: the first iteration awaits the POST
SendFinalResult ==
  /\ sender.pc = "idle"
  /\ sender' = [sender EXCEPT !.pc = "post", !.attempt = 1]
  /\ UNCHANGED pipelineVars
  /\ UNCHANGED unitVars

\* the awaited POST completes with outcome; the rest of the iteration runs
\* up to the return, the sleep or the next POST
AttemptCompletes(outcome) ==
  /\ sender.pc = "post"
  /\ LET logged == [sender EXCEPT !.log = Append(@, AttemptEvent(sender.attempt, outcome))]
     IN sender' =
          IF IsSuccess(outcome)
          THEN [logged EXCEPT !.pc = "returned", !.result = "True"]
          ELSE IF IsClientError(outcome)
          THEN [logged EXCEPT !.pc = "returned", !.result = "False"]
          ELSE IF ShouldWait(sender.attempt)
          THEN [logged EXCEPT !.pc = "sleep",
                              !.log = Append(@, WaitEvent(sender.attempt,
                                                          WaitTime(sender.attempt)))]
          ELSE NextIteration(logged)
  /\ UNCHANGED pipelineVars
  /\ UNCHANGED unitVars

\* asyncio.sleep(wait_time) is over
SleepOver ==
  /\ sender.pc = "sleep"
  /\ sender' = NextIteration(sender)
  /\ UNCHANGED pipelineVars
  /\ UNCHANGED unitVars

NextSend ==
  \/ SendFinalResult
  \/ \E outcome \in AttemptOutcomes : AttemptCompletes(outcome)
  \/ SleepOver

SpecSend ==
  Init /\ [][NextSend]_vars

\* the POST is bounded by its 15 s timeout and the sleep by wait_time, so a
\* call that is suspended is resumed
SpecSendFair ==
  SpecSend /\ WF_vars(NextSend)

-----------------------------------------------------------------------------
(* Specification: ScamDetector.detect called by itself (detector.py), on    *)
(* texts put together from one or two sentences. A text is what the         *)
(* classifier's patterns and keyword lists see in it.                       *)

\* patterns: per category, the positions in SCAM_PATTERNS[category] of the
\* patterns that search the text successfully; matches: how many they are
DetectTexts ==
  {
    [id |-> "Hello, how are you?",
     patterns |-> <<{}, {}, {}, {}, {}, {}>>,
     matches |-> <<0,0,0,0,0,0>>, urgency |-> 0, authority |-> 0, action |-> 0, high_risk |-> 0],
    [id |-> "Your KYC expired.",
     patterns |-> <<{}, {1}, {}, {}, {}, {}>>,
     matches |-> <<0,1,0,0,0,0>>, urgency |-> 1, authority |-> 0, action |-> 0, high_risk |-> 1],
    [id |-> "Update your KYC.",
     patterns |-> <<{}, {2}, {}, {}, {}, {}>>,
     matches |-> <<0,1,0,0,0,0>>, urgency |-> 0, authority |-> 0, action |-> 1, high_risk |-> 1],
    [id |-> "Account will be blocked.",
     patterns |-> <<{}, {3}, {}, {}, {}, {}>>,
     matches |-> <<0,1,0,0,0,0>>, urgency |-> 1, authority |-> 0, action |-> 0, high_risk |-> 1],
    [id |-> "This is an RBI mandate.",
     patterns |-> <<{}, {5}, {}, {}, {}, {}>>,
     matches |-> <<0,1,0,0,0,0>>, urgency |-> 0, authority |-> 1, action |-> 0, high_risk |-> 0],
    [id |-> "You won a lottery prize.",
     patterns |-> <<{}, {}, {}, {}, {}, {1,2}>>,
     matches |-> <<0,0,0,0,0,2>>, urgency |-> 0, authority |-> 0, action |-> 0, high_risk |-> 0],
    [id |-> "It was a lucky draw.",
     patterns |-> <<{}, {}, {}, {}, {}, {4}>>,
     matches |-> <<0,0,0,0,0,1>>, urgency |-> 0, authority |-> 0, action |-> 0, high_risk |-> 0],
    [id |-> "Claim your prize.",
     patterns |-> <<{}, {}, {}, {}, {}, {3}>>,
     matches |-> <<0,0,0,0,0,1>>, urgency |-> 0, authority |-> 0, action |-> 0, high_risk |-> 0],
    [id |-> "Urgent!",
     patterns |-> <<{}, {}, {}, {}, {}, {}>>,
     matches |-> <<0,0,0,0,0,0>>, urgency |-> 1, authority |-> 0, action |-> 0, high_risk |-> 1],
    [id |-> "Contact the bank official.",
     patterns |-> <<{}, {}, {}, {}, {}, {}>>,
     matches |-> <<0,0,0,0,0,0>>, urgency |-> 0, authority |-> 2, action |-> 0, high_risk |-> 0],
    [id |-> "Please verify.",
     patterns |-> <<{}, {}, {}, {}, {}, {}>>,
     matches |-> <<0,0,0,0,0,0>>, urgency |-> 0, authority |-> 0, action |-> 1, high_risk |-> 1],
    [id |-> "Pay the fee today.",
     patterns |-> <<{}, {}, {}, {}, {}, {}>>,
     matches |-> <<0,0,0,0,0,0>>, urgency |-> 1, authority |-> 0, action |-> 2, high_risk |-> 0],
    [id |-> "Hello, how are you? Your KYC expired.",
     patterns |-> <<{}, {1}, {}, {}, {}, {}>>,
     matches |-> <<0,1,0,0,0,0>>, urgency |-> 1, authority |-> 0, action |-> 0, high_risk |-> 1],
    [id |-> "Hello, how are you? Update your KYC.",
     patterns |-> <<{}, {2}, {}, {}, {}, {}>>,
     matches |-> <<0,1,0,0,0,0>>, urgency |-> 0, authority |-> 0, action |-> 1, high_risk |-> 1],
    [id |-> "Hello, how are you? Account will be blocked.",
     patterns |-> <<{}, {3}, {}, {}, {}, {}>>,
     matches |-> <<0,1,0,0,0,0>>, urgency |-> 1, authority |-> 0, action |-> 0, high_risk |-> 1],
    [id |-> "Hello, how are you? This is an RBI mandate.",
     patterns |-> <<{}, {5}, {}, {}, {}, {}>>,
     matches |-> <<0,1,0,0,0,0>>, urgency |-> 0, authority |-> 1, action |-> 0, high_risk |-> 0],
    [id |-> "Hello, how are you? You won a lottery prize.",
     patterns |-> <<{}, {}, {}, {}, {}, {1,2}>>,
     matches |-> <<0,0,0,0,0,2>>, urgency |-> 0, authority |-> 0, action |-> 0, high_risk |-> 0],
    [id |-> "Hello, how are you? It was a lucky draw.",
     patterns |-> <<{}, {}, {}, {}, {}, {4}>>,
     matches |-> <<0,0,0,0,0,1>>, urgency |-> 0, authority |-> 0, action |-> 0, high_risk |-> 0],
    [id |-> "Hello, how are you? Claim your prize.",
     patterns |-> <<{}, {}, {}, {}, {}, {3}>>,
     matches |-> <<0,0,0,0,0,1>>, urgency |-> 0, authority |-> 0, action |-> 0, high_risk |-> 0],
    [id |-> "Hello, how are you? Urgent!",
     patterns |-> <<{}, {}, {}, {}, {}, {}>>,
     matches |-> <<0,0,0,0,0,0>>, urgency |-> 1, authority |-> 0, action |-> 0, high_risk |-> 1],
    [id |-> "Hello, how are you? Contact the bank official.",
     patterns |-> <<{}, {}, {}, {}, {}, {}>>,
     matches |-> <<0,0,0,0,0,0>>, urgency |-> 0, authority |-> 2, action |-> 0, high_risk |-> 0],
    [id |-> "Hello, how are you? Please verify.",
     patterns |-> <<{}, {}, {}, {}, {}, {}>>,
     matches |-> <<0,0,0,0,0,0>>, urgency |-> 0, authority |-> 0, action |-> 1, high_risk |-> 1],
    [id |-> "Hello, how are you? Pay the fee today.",
     patterns |-> <<{}, {}, {}, {}, {}, {}>>,
     matches |-> <<0,0,0,0,0,0>>, urgency |-> 1, authority |-> 0, action |-> 2, high_risk |-> 0],
    [id |-> "Your KYC expired. Update your KYC.",
     patterns |-> <<{}, {1,2}, {}, {}, {}, {}>>,
     matches |-> <<0,2,0,0,0,0>>, urgency |-> 1, authority |-> 0, action |-> 1, high_risk |-> 1],
    [id |-> "Your KYC expired. Account will be blocked.",
     patterns |-> <<{}, {1,3}, {}, {}, {}, {}>>,
     matches |-> <<0,2,0,0,0,0>>, urgency |-> 2, authority |-> 0, action |-> 0, high_risk |-> 2],
    [id |-> "Your KYC expired. This is an RBI mandate.",
     patterns |-> <<{}, {1,5}, {}, {}, {}, {}>>,
     matches |-> <<0,2,0,0,0,0>>, urgency |-> 1, authority |-> 1, action |-> 0, high_risk |-> 1],
    [id |-> "Your KYC expired. You won a lottery prize.",
     patterns |-> <<{}, {1}, {}, {}, {}, {1,2}>>,
     matches |-> <<0,1,0,0,0,2>>, urgency |-> 1, authority |-> 0, action |-> 0, high_risk |-> 1],
    [id |-> "Your KYC expired. It was a lucky draw.",
     patterns |-> <<{}, {1}, {}, {}, {}, {4}>>,
     matches |-> <<0,1,0,0,0,1>>, urgency |-> 1, authority |-> 0, action |-> 0, high_risk |-> 1],
    [id |-> "Your KYC expired. Claim your prize.",
     patterns |-> <<{}, {1}, {}, {}, {}, {3}>>,
     matches |-> <<0,1,0,0,0,1>>, urgency |-> 1, authority |-> 0, action |-> 0, high_risk |-> 1],
    [id |-> "Your KYC expired. Urgent!",
     patterns |-> <<{}, {1}, {}, {}, {}, {}>>,
     matches |-> <<0,1,0,0,0,0>>, urgency |-> 2, authority |-> 0, action |-> 0, high_risk |-> 2],
    [id |-> "Your KYC expired. Contact the bank official.",
     patterns |-> <<{}, {1}, {}, {}, {}, {}>>,
     matches |-> <<0,1,0,0,0,0>>, urgency |-> 1, authority |-> 2, action |-> 0, high_risk |-> 1],
    [id |-> "Your KYC expired. Please verify.",
     patterns |-> <<{}, {1}, {}, {}, {}, {}>>,
     matches |-> <<0,1,0,0,0,0>>, urgency |-> 1, authority |-> 0, action |-> 1, high_risk |-> 2],
    [id |-> "Your KYC expired. Pay the fee today.",
     patterns |-> <<{}, {1}, {}, {}, {}, {}>>,
     matches |-> <<0,1,0,0,0,0>>, urgency |-> 2, authority |-> 0, action |-> 2, high_risk |-> 1],
    [id |-> "Update your KYC. Account will be blocked.",
     patterns |-> <<{}, {2,3}, {}, {}, {}, {}>>,
     matches |-> <<0,2,0,0,0,0>>, urgency |-> 1, authority |-> 0, action |-> 1, high_risk |-> 2],
    [id |-> "Update your KYC. This is an RBI mandate.",
     patterns |-> <<{}, {2,5}, {}, {}, {}, {}>>,
     matches |-> <<0,2,0,0,0,0>>, urgency |-> 0, authority |-> 1, action |-> 1, high_risk |-> 1],
    [id |-> "Update your KYC. You won a lottery prize.",
     patterns |-> <<{}, {2}, {}, {}, {}, {1,2}>>,
     matches |-> <<0,1,0,0,0,2>>, urgency |-> 0, authority |-> 0, action |-> 1, high_risk |-> 1],
    [id |-> "Update your KYC. It was a lucky draw.",
     patterns |-> <<{}, {2}, {}, {}, {}, {4}>>,
     matches |-> <<0,1,0,0,0,1>>, urgency |-> 0, authority |-> 0, action |-> 1, high_risk |-> 1],
    [id |-> "Update your KYC. Claim your prize.",
     patterns |-> <<{}, {2}, {}, {}, {}, {3}>>,
     matches |-> <<0,1,0,0,0,1>>, urgency |-> 0, authority |-> 0, action |-> 1, high_risk |-> 1],
    [id |-> "Update your KYC. Urgent!",
     patterns |-> <<{}, {2}, {}, {}, {}, {}>>,
     matches |-> <<0,1,0,0,0,0>>, urgency |-> 1, authority |-> 0, action |-> 1, high_risk |-> 2],
    [id |-> "Update your KYC. Contact the bank official.",
     patterns |-> <<{}, {2}, {}, {}, {}, {}>>,
     matches |-> <<0,1,0,0,0,0>>, urgency |-> 0, authority |-> 2, action |-> 1, high_risk |-> 1],
    [id |-> "Update your KYC. Please verify.",
     patterns |-> <<{}, {2}, {}, {}, {}, {}>>,
     matches |-> <<0,1,0,0,0,0>>, urgency |-> 0, authority |-> 0, action |-> 2, high_risk |-> 2],
    [id |-> "Update your KYC. Pay the fee today.",
     patterns |-> <<{}, {2}, {}, {}, {}, {}>>,
     matches |-> <<0,1,0,0,0,0>>, urgency |-> 1, authority |-> 0, action |-> 3, high_risk |-> 1],
    [id |-> "Account will be blocked. This is an RBI mandate.",
     patterns |-> <<{}, {3,5}, {}, {}, {}, {}>>,
     matches |-> <<0,2,0,0,0,0>>, urgency |-> 1, authority |-> 1, action |-> 0, high_risk |-> 1],
    [id |-> "Account will be blocked. You won a lottery prize.",
     patterns |-> <<{}, {3}, {}, {}, {}, {1,2}>>,
     matches |-> <<0,1,0,0,0,2>>, urgency |-> 1, authority |-> 0, action |-> 0, high_risk |-> 1],
    [id |-> "Account will be blocked. It was a lucky draw.",
     patterns |-> <<{}, {3}, {}, {}, {}, {4}>>,
     matches |-> <<0,1,0,0,0,1>>, urgency |-> 1, authority |-> 0, action |-> 0, high_risk |-> 1],
    [id |-> "Account will be blocked. Claim your prize.",
     patterns |-> <<{}, {3}, {}, {}, {}, {3}>>,
     matches |-> <<0,1,0,0,0,1>>, urgency |-> 1, authority |-> 0, action |-> 0, high_risk |-> 1],
    [id |-> "Account will be blocked. Urgent!",
     patterns |-> <<{}, {3}, {}, {}, {}, {}>>,
     matches |-> <<0,1,0,0,0,0>>, urgency |-> 2, authority |-> 0, action |-> 0, high_risk |-> 2],
    [id |-> "Account will be blocked. Contact the bank official.",
     patterns |-> <<{}, {3}, {}, {}, {}, {}>>,
     matches |-> <<0,1,0,0,0,0>>, urgency |-> 1, authority |-> 2, action |-> 0, high_risk |-> 1],
    [id |-> "Account will be blocked. Please verify.",
     patterns |-> <<{}, {3}, {}, {}, {}, {}>>,
     matches |-> <<0,1,0,0,0,0>>, urgency |-> 1, authority |-> 0, action |-> 1, high_risk |-> 2],
    [id |-> "Account will be blocked. Pay the fee today.",
     patterns |-> <<{}, {3}, {}, {}, {}, {}>>,
     matches |-> <<0,1,0,0,0,0>>, urgency |-> 2, authority |-> 0, action |-> 2, high_risk |-> 1],
    [id |-> "This is an RBI mandate. You won a lottery prize.",
     patterns |-> <<{}, {5}, {}, {}, {}, {1,2}>>,
     matches |-> <<0,1,0,0,0,2>>, urgency |-> 0, authority |-> 1, action |-> 0, high_risk |-> 0],
    [id |-> "This is an RBI mandate. It was a lucky draw.",
     patterns |-> <<{}, {5}, {}, {}, {}, {4}>>,
     matches |-> <<0,1,0,0,0,1>>, urgency |-> 0, authority |-> 1, action |-> 0, high_risk |-> 0],
    [id |-> "This is an RBI mandate. Claim your prize.",
     patterns |-> <<{}, {5}, {}, {}, {}, {3}>>,
     matches |-> <<0,1,0,0,0,1>>, urgency |-> 0, authority |-> 1, action |-> 0, high_risk |-> 0],
    [id |-> "This is an RBI mandate. Urgent!",
     patterns |-> <<{}, {5}, {}, {}, {}, {}>>,
     matches |-> <<0,1,0,0,0,0>>, urgency |-> 1, authority |-> 1, action |-> 0, high_risk |-> 1],
    [id |-> "This is an RBI mandate. Contact the bank official.",
     patterns |-> <<{}, {5}, {}, {}, {}, {}>>,
     matches |-> <<0,1,0,0,0,0>>, urgency |-> 0, authority |-> 3, action |-> 0, high_risk |-> 0],
    [id |-> "This is an RBI mandate. Please verify.",
     patterns |-> <<{}, {5}, {}, {}, {}, {}>>,
     matches |-> <<0,1,0,0,0,0>>, urgency |-> 0, authority |-> 1, action |-> 1, high_risk |-> 1],
    [id |-> "This is an RBI mandate. Pay the fee today.",
     patterns |-> <<{}, {5}, {}, {}, {}, {}>>,
     matches |-> <<0,1,0,0,0,0>>, urgency |-> 1, authority |-> 1, action |-> 2, high_risk |-> 0],
    [id |-> "You won a lottery prize. It was a lucky draw.",
     patterns |-> <<{}, {}, {}, {}, {}, {1,2,4}>>,
     matches |-> <<0,0,0,0,0,3>>, urgency |-> 0, authority |-> 0, action |-> 0, high_risk |-> 0],
    [id |-> "You won a lottery prize. Claim your prize.",
     patterns |-> <<{}, {}, {}, {}, {}, {1,2,3}>>,
     matches |-> <<0,0,0,0,0,3>>, urgency |-> 0, authority |-> 0, action |-> 0, high_risk |-> 0],
    [id |-> "You won a lottery prize. Urgent!",
     patterns |-> <<{}, {}, {}, {}, {}, {1,2}>>,
     matches |-> <<0,0,0,0,0,2>>, urgency |-> 1, authority |-> 0, action |-> 0, high_risk |-> 1],
    [id |-> "You won a lottery prize. Contact the bank official.",
     patterns |-> <<{}, {}, {}, {}, {}, {1,2}>>,
     matches |-> <<0,0,0,0,0,2>>, urgency |-> 0, authority |-> 2, action |-> 0, high_risk |-> 0],
    [id |-> "You won a lottery prize. Please verify.",
     patterns |-> <<{}, {}, {}, {}, {}, {1,2}>>,
     matches |-> <<0,0,0,0,0,2>>, urgency |-> 0, authority |-> 0, action |-> 1, high_risk |-> 1],
    [id |-> "You won a lottery prize. Pay the fee today.",
     patterns |-> <<{}, {}, {}, {}, {}, {1,2}>>,
     matches |-> <<0,0,0,0,0,2>>, urgency |-> 1, authority |-> 0, action |-> 2, high_risk |-> 0],
    [id |-> "It was a lucky draw. Claim your prize.",
     patterns |-> <<{}, {}, {}, {}, {}, {3,4}>>,
     matches |-> <<0,0,0,0,0,2>>, urgency |-> 0, authority |-> 0, action |-> 0, high_risk |-> 0],
    [id |-> "It was a lucky draw. Urgent!",
     patterns |-> <<{}, {}, {}, {}, {}, {4}>>,
     matches |-> <<0,0,0,0,0,1>>, urgency |-> 1, authority |-> 0, action |-> 0, high_risk |-> 1],
    [id |-> "It was a lucky draw. Contact the bank official.",
     patterns |-> <<{}, {}, {}, {}, {}, {4}>>,
     matches |-> <<0,0,0,0,0,1>>, urgency |-> 0, authority |-> 2, action |-> 0, high_risk |-> 0],
    [id |-> "It was a lucky draw. Please verify.",
     patterns |-> <<{}, {}, {}, {}, {}, {4}>>,
     matches |-> <<0,0,0,0,0,1>>, urgency |-> 0, authority |-> 0, action |-> 1, high_risk |-> 1],
    [id |-> "It was a lucky draw. Pay the fee today.",
     patterns |-> <<{}, {}, {}, {}, {}, {4}>>,
     matches |-> <<0,0,0,0,0,1>>, urgency |-> 1, authority |-> 0, action |-> 2, high_risk |-> 0],
    [id |-> "Claim your prize. Urgent!",
     patterns |-> <<{}, {}, {}, {}, {}, {3}>>,
     matches |-> <<0,0,0,0,0,1>>, urgency |-> 1, authority |-> 0, action |-> 0, high_risk |-> 1],
    [id |-> "Claim your prize. Contact the bank official.",
     patterns |-> <<{}, {}, {}, {}, {}, {3}>>,
     matches |-> <<0,0,0,0,0,1>>, urgency |-> 0, authority |-> 2, action |-> 0, high_risk |-> 0],
    [id |-> "Claim your prize. Please verify.",
     patterns |-> <<{}, {}, {}, {}, {}, {3}>>,
     matches |-> <<0,0,0,0,0,1>>, urgency |-> 0, authority |-> 0, action |-> 1, high_risk |-> 1],
    [id |-> "Claim your prize. Pay the fee today.",
     patterns |-> <<{}, {}, {}, {}, {}, {3}>>,
     matches |-> <<0,0,0,0,0,1>>, urgency |-> 1, authority |-> 0, action |-> 2, high_risk |-> 0],
    [id |-> "Urgent! Contact the bank official.",
     patterns |-> <<{}, {}, {}, {}, {}, {}>>,
     matches |-> <<0,0,0,0,0,0>>, urgency |-> 1, authority |-> 2, action |-> 0, high_risk |-> 1],
    [id |-> "Urgent! Please verify.",
     patterns |-> <<{}, {}, {}, {}, {}, {}>>,
     matches |-> <<0,0,0,0,0,0>>, urgency |-> 1, authority |-> 0, action |-> 1, high_risk |-> 2],
    [id |-> "Urgent! Pay the fee today.",
     patterns |-> <<{}, {}, {}, {}, {}, {}>>,
     matches |-> <<0,0,0,0,0,0>>, urgency |-> 2, authority |-> 0, action |-> 2, high_risk |-> 1],
    [id |-> "Contact the bank official. Please verify.",
     patterns |-> <<{}, {}, {}, {}, {}, {}>>,
     matches |-> <<0,0,0,0,0,0>>, urgency |-> 0, authority |-> 2, action |-> 1, high_risk |-> 1],
    [id |-> "Contact the bank official. Pay the fee today.",
     patterns |-> <<{}, {}, {}, {}, {}, {}>>,
     matches |-> <<0,0,0,0,0,0>>, urgency |-> 1, authority |-> 2, action |-> 2, high_risk |-> 0],
    [id |-> "Please verify. Pay the fee today.",
     patterns |-> <<{}, {}, {}, {}, {}, {}>>,
     matches |-> <<0,0,0,0,0,0>>, urgency |-> 1, authority |-> 0, action |-> 3, high_risk |-> 1],
    [id |-> "Pay your bill.",
     patterns |-> <<{}, {}, {3}, {}, {}, {}>>,
     matches |-> <<0,0,1,0,0,0>>, urgency |-> 0, authority |-> 0, action |-> 1, high_risk |-> 0],
    [id |-> "Your package held.",
     patterns |-> <<{}, {}, {}, {3}, {}, {}>>,
     matches |-> <<0,0,0,1,0,0>>, urgency |-> 0, authority |-> 0, action |-> 0, high_risk |-> 0],
    [id |-> "Pay your bill. Your package held.",
     patterns |-> <<{}, {}, {3}, {3}, {}, {}>>,
     matches |-> <<0,0,1,1,0,0>>, urgency |-> 0, authority |-> 0, action |-> 1, high_risk |-> 0],
    [id |-> "You won a lottery prize. It was a lucky draw. Urgent! Please verify.",
     patterns |-> <<{}, {}, {}, {}, {}, {1,2,4}>>,
     matches |-> <<0,0,0,0,0,3>>, urgency |-> 1, authority |-> 0, action |-> 1, high_risk |-> 2],
    [id |-> "You won a lottery prize. It was a lucky draw. Contact the bank official immediately today.",
     patterns |-> <<{}, {}, {}, {}, {}, {1,2,4}>>,
     matches |-> <<0,0,0,0,0,3>>, urgency |-> 2, authority |-> 2, action |-> 0, high_risk |-> 0]
  }

\* what one detect call computes and returns
DetectionOf(m, hist) ==
  [text |-> m.id, hist |-> hist,
   patterns |-> m.patterns,
   category_confidence |-> [i \in DOMAIN Categories |-> CategoryConfidence(m, i)],
   boosts |-> LET base == CombinedConfidence(m)
                  signals == UrgencyWithAuthority(m)
                  boosted1 == IF signals THEN BoostForSignals(base) ELSE base
              IN [signals |-> [applied |-> signals, from |-> base, to |-> boosted1],
                  high_risk |-> [applied |-> m.high_risk >= 2, from |-> boosted1,
                                 to |-> IF m.high_risk >= 2
                                        THEN BoostForHighRisk(boosted1) ELSE boosted1]],
   computed |-> RuleBasedDetection(m),
   returned |-> Detect(m, hist)]

DetectionTable ==
  [m \in DetectTexts |-> [hist \in HistoryFlags |-> DetectionOf(m, hist)]]

\* await detector.detect(message, conversation_history)
DetectCall(m, hist) ==
  /\ detection' = [last |-> DetectionTable[m][hist], before |-> detection.last]
  /\ UNCHANGED pipelineVars
  /\ UNCHANGED <<sender, extraction, storeCall, generation>>

NextDetect ==
  \E m \in DetectTexts, hist \in HistoryFlags : DetectCall(m, hist)

SpecDetect ==
  Init /\ [][NextDetect]_vars

-----------------------------------------------------------------------------
(* Specification: IntelligenceExtractor.extract called by itself            *)
(* (extractor.py), on texts put together from one or two phrases. A text is *)
(* the matches PATTERNS[key].finditer yields on it: the whole matched text  *)
(* (full) and the text of the pattern's capturing group (group).            *)

ExtractTexts ==
  {
    [id |-> "send to rahul.k@paytm now",
     upiIds |-> <<[full |-> <<"r","a","h","u","l",".","k","@","p","a","y","t","m">>, group |-> <<"p","a","y","t","m">>]>>,
     bankAccounts |-> <<>>,
     phoneNumbers |-> <<>>,
     phishingLinks |-> <<>>,
     shortenedLinks |-> <<>>,
     keywords |-> {<<"n","o","w">>, <<"p","a","y">>, <<"s","e","n","d">>}],
    [id |-> "or pay priya@ybl",
     upiIds |-> <<[full |-> <<"p","r","i","y","a","@","y","b","l">>, group |-> <<"y","b","l">>]>>,
     bankAccounts |-> <<>>,
     phoneNumbers |-> <<>>,
     phishingLinks |-> <<>>,
     shortenedLinks |-> <<>>,
     keywords |-> {<<"p","a","y">>}],
    [id |-> "contact me at office@company.com",
     upiIds |-> <<>>,
     bankAccounts |-> <<>>,
     phoneNumbers |-> <<>>,
     phishingLinks |-> <<>>,
     shortenedLinks |-> <<>>,
     keywords |-> {}],
    [id |-> "Update immediately at bit.ly/fake-kyc",
     upiIds |-> <<>>,
     bankAccounts |-> <<>>,
     phoneNumbers |-> <<>>,
     phishingLinks |-> <<>>,
     shortenedLinks |-> <<[full |-> <<"b","i","t",".","l","y","/","f","a","k","e">>, group |-> <<"b","i","t",".","l","y">>]>>,
     keywords |-> {<<"i","m","m","e","d","i","a","t","e","l","y">>, <<"u","p","d","a","t","e">>}],
    [id |-> "visit http://evil.com/kyc",
     upiIds |-> <<>>,
     bankAccounts |-> <<>>,
     phoneNumbers |-> <<>>,
     phishingLinks |-> <<[full |-> <<"h","t","t","p",":","/","/","e","v","i","l",".","c","o","m">>, group |-> <<>>]>>,
     shortenedLinks |-> <<>>,
     keywords |-> {}],
    [id |-> "+91 9876543210",
     upiIds |-> <<>>,
     bankAccounts |-> <<>>,
     phoneNumbers |-> <<[full |-> <<"+","9","1"," ","9","8","7","6","5","4","3","2","1","0">>, group |-> <<>>]>>,
     phishingLinks |-> <<>>,
     shortenedLinks |-> <<>>,
     keywords |-> {}],
    [id |-> "09876543210",
     upiIds |-> <<>>,
     bankAccounts |-> <<>>,
     phoneNumbers |-> <<[full |-> <<"0","9","8","7","6","5","4","3","2","1","0">>, group |-> <<>>]>>,
     phishingLinks |-> <<>>,
     shortenedLinks |-> <<>>,
     keywords |-> {}],
    [id |-> "919876543210",
     upiIds |-> <<>>,
     bankAccounts |-> <<>>,
     phoneNumbers |-> <<[full |-> <<"9","1","9","8","7","6","5","4","3","2","1","0">>, group |-> <<>>]>>,
     phishingLinks |-> <<>>,
     shortenedLinks |-> <<>>,
     keywords |-> {}],
    [id |-> "12345",
     upiIds |-> <<>>,
     bankAccounts |-> <<>>,
     phoneNumbers |-> <<>>,
     phishingLinks |-> <<>>,
     shortenedLinks |-> <<>>,
     keywords |-> {}],
    [id |-> "call 8123456789",
     upiIds |-> <<>>,
     bankAccounts |-> <<>>,
     phoneNumbers |-> <<[full |-> <<"8","1","2","3","4","5","6","7","8","9">>, group |-> <<>>]>>,
     phishingLinks |-> <<>>,
     shortenedLinks |-> <<>>,
     keywords |-> {}],
    [id |-> "transfer to a/c 123456789012",
     upiIds |-> <<>>,
     bankAccounts |-> <<[full |-> <<"a","/","c"," ","1","2","3","4","5","6","7","8","9","0","1","2">>, group |-> <<"1","2","3","4","5","6","7","8","9","0","1","2">>]>>,
     phoneNumbers |-> <<>>,
     phishingLinks |-> <<>>,
     shortenedLinks |-> <<>>,
     keywords |-> {<<"t","r","a","n","s","f","e","r">>}],
    [id |-> "Send to RAHUL.K@PAYTM",
     upiIds |-> <<[full |-> <<"R","A","H","U","L",".","K","@","P","A","Y","T","M">>, group |-> <<"P","A","Y","T","M">>]>>,
     bankAccounts |-> <<>>,
     phoneNumbers |-> <<>>,
     phishingLinks |-> <<>>,
     shortenedLinks |-> <<>>,
     keywords |-> {<<"p","a","y">>, <<"s","e","n","d">>}],
    [id |-> "+91 09876543210",
     upiIds |-> <<>>,
     bankAccounts |-> <<>>,
     phoneNumbers |-> <<[full |-> <<"+","9","1"," ","0","9","8","7","6","5","4","3","2","1","0">>, group |-> <<>>]>>,
     phishingLinks |-> <<>>,
     shortenedLinks |-> <<>>,
     keywords |-> {}],
    [id |-> "Hello, how are you?",
     upiIds |-> <<>>,
     bankAccounts |-> <<>>,
     phoneNumbers |-> <<>>,
     phishingLinks |-> <<>>,
     shortenedLinks |-> <<>>,
     keywords |-> {}],
    [id |-> "and amit@paytm",
     upiIds |-> <<[full |-> <<"a","m","i","t","@","p","a","y","t","m">>, group |-> <<"p","a","y","t","m">>]>>,
     bankAccounts |-> <<>>,
     phoneNumbers |-> <<>>,
     phishingLinks |-> <<>>,
     shortenedLinks |-> <<>>,
     keywords |-> {<<"p","a","y">>}],
    [id |-> "send to rahul.k@paytm now, or pay priya@ybl",
     upiIds |-> <<[full |-> <<"r","a","h","u","l",".","k","@","p","a","y","t","m">>, group |-> <<"p","a","y","t","m">>], [full |-> <<"p","r","i","y","a","@","y","b","l">>, group |-> <<"y","b","l">>]>>,
     bankAccounts |-> <<>>,
     phoneNumbers |-> <<>>,
     phishingLinks |-> <<>>,
     shortenedLinks |-> <<>>,
     keywords |-> {<<"n","o","w">>, <<"p","a","y">>, <<"s","e","n","d">>}],
    [id |-> "send to rahul.k@paytm now, contact me at office@company.com",
     upiIds |-> <<[full |-> <<"r","a","h","u","l",".","k","@","p","a","y","t","m">>, group |-> <<"p","a","y","t","m">>]>>,
     bankAccounts |-> <<>>,
     phoneNumbers |-> <<>>,
     phishingLinks |-> <<>>,
     shortenedLinks |-> <<>>,
     keywords |-> {<<"n","o","w">>, <<"p","a","y">>, <<"s","e","n","d">>}],
    [id |-> "send to rahul.k@paytm now, Update immediately at bit.ly/fake-kyc",
     upiIds |-> <<[full |-> <<"r","a","h","u","l",".","k","@","p","a","y","t","m">>, group |-> <<"p","a","y","t","m">>]>>,
     bankAccounts |-> <<>>,
     phoneNumbers |-> <<>>,
     phishingLinks |-> <<>>,
     shortenedLinks |-> <<[full |-> <<"b","i","t",".","l","y","/","f","a","k","e">>, group |-> <<"b","i","t",".","l","y">>]>>,
     keywords |-> {<<"i","m","m","e","d","i","a","t","e","l","y">>, <<"n","o","w">>, <<"u","p","d","a","t","e">>, <<"p","a","y">>, <<"s","e","n","d">>}],
    [id |-> "send to rahul.k@paytm now, visit http://evil.com/kyc",
     upiIds |-> <<[full |-> <<"r","a","h","u","l",".","k","@","p","a","y","t","m">>, group |-> <<"p","a","y","t","m">>]>>,
     bankAccounts |-> <<>>,
     phoneNumbers |-> <<>>,
     phishingLinks |-> <<[full |-> <<"h","t","t","p",":","/","/","e","v","i","l",".","c","o","m">>, group |-> <<>>]>>,
     shortenedLinks |-> <<>>,
     keywords |-> {<<"n","o","w">>, <<"p","a","y">>, <<"s","e","n","d">>}],
    [id |-> "send to rahul.k@paytm now, +91 9876543210",
     upiIds |-> <<[full |-> <<"r","a","h","u","l",".","k","@","p","a","y","t","m">>, group |-> <<"p","a","y","t","m">>]>>,
     bankAccounts |-> <<>>,
     phoneNumbers |-> <<[full |-> <<"+","9","1"," ","9","8","7","6","5","4","3","2","1","0">>, group |-> <<>>]>>,
     phishingLinks |-> <<>>,
     shortenedLinks |-> <<>>,
     keywords |-> {<<"n","o","w">>, <<"p","a","y">>, <<"s","e","n","d">>}],
    [id |-> "send to rahul.k@paytm now, 09876543210",
     upiIds |-> <<[full |-> <<"r","a","h","u","l",".","k","@","p","a","y","t","m">>, group |-> <<"p","a","y","t","m">>]>>,
     bankAccounts |-> <<>>,
     phoneNumbers |-> <<[full |-> <<"0","9","8","7","6","5","4","3","2","1","0">>, group |-> <<>>]>>,
     phishingLinks |-> <<>>,
     shortenedLinks |-> <<>>,
     keywords |-> {<<"n","o","w">>, <<"p","a","y">>, <<"s","e","n","d">>}],
    [id |-> "send to rahul.k@paytm now, 919876543210",
     upiIds |-> <<[full |-> <<"r","a","h","u","l",".","k","@","p","a","y","t","m">>, group |-> <<"p","a","y","t","m">>]>>,
     bankAccounts |-> <<>>,
     phoneNumbers |-> <<[full |-> <<"9","1","9","8","7","6","5","4","3","2","1","0">>, group |-> <<>>]>>,
     phishingLinks |-> <<>>,
     shortenedLinks |-> <<>>,
     keywords |-> {<<"n","o","w">>, <<"p","a","y">>, <<"s","e","n","d">>}],
    [id |-> "send to rahul.k@paytm now, 12345",
     upiIds |-> <<[full |-> <<"r","a","h","u","l",".","k","@","p","a","y","t","m">>, group |-> <<"p","a","y","t","m">>]>>,
     bankAccounts |-> <<>>,
     phoneNumbers |-> <<>>,
     phishingLinks |-> <<>>,
     shortenedLinks |-> <<>>,
     keywords |-> {<<"n","o","w">>, <<"p","a","y">>, <<"s","e","n","d">>}],
    [id |-> "send to rahul.k@paytm now, call 8123456789",
     upiIds |-> <<[full |-> <<"r","a","h","u","l",".","k","@","p","a","y","t","m">>, group |-> <<"p","a","y","t","m">>]>>,
     bankAccounts |-> <<>>,
     phoneNumbers |-> <<[full |-> <<"8","1","2","3","4","5","6","7","8","9">>, group |-> <<>>]>>,
     phishingLinks |-> <<>>,
     shortenedLinks |-> <<>>,
     keywords |-> {<<"n","o","w">>, <<"p","a","y">>, <<"s","e","n","d">>}],
    [id |-> "send to rahul.k@paytm now, transfer to a/c 123456789012",
     upiIds |-> <<[full |-> <<"r","a","h","u","l",".","k","@","p","a","y","t","m">>, group |-> <<"p","a","y","t","m">>]>>,
     bankAccounts |-> <<[full |-> <<"a","/","c"," ","1","2","3","4","5","6","7","8","9","0","1","2">>, group |-> <<"1","2","3","4","5","6","7","8","9","0","1","2">>]>>,
     phoneNumbers |-> <<>>,
     phishingLinks |-> <<>>,
     shortenedLinks |-> <<>>,
     keywords |-> {<<"n","o","w">>, <<"p","a","y">>, <<"s","e","n","d">>, <<"t","r","a","n","s","f","e","r">>}],
    [id |-> "send to rahul.k@paytm now, Send to RAHUL.K@PAYTM",
     upiIds |-> <<[full |-> <<"r","a","h","u","l",".","k","@","p","a","y","t","m">>, group |-> <<"p","a","y","t","m">>], [full |-> <<"R","A","H","U","L",".","K","@","P","A","Y","T","M">>, group |-> <<"P","A","Y","T","M">>]>>,
     bankAccounts |-> <<>>,
     phoneNumbers |-> <<>>,
     phishingLinks |-> <<>>,
     shortenedLinks |-> <<>>,
     keywords |-> {<<"n","o","w">>, <<"p","a","y">>, <<"s","e","n","d">>}],
    [id |-> "send to rahul.k@paytm now, +91 09876543210",
     upiIds |-> <<[full |-> <<"r","a","h","u","l",".","k","@","p","a","y","t","m">>, group |-> <<"p","a","y","t","m">>]>>,
     bankAccounts |-> <<>>,
     phoneNumbers |-> <<[full |-> <<"+","9","1"," ","0","9","8","7","6","5","4","3","2","1","0">>, group |-> <<>>]>>,
     phishingLinks |-> <<>>,
     shortenedLinks |-> <<>>,
     keywords |-> {<<"n","o","w">>, <<"p","a","y">>, <<"s","e","n","d">>}],
    [id |-> "send to rahul.k@paytm now, Hello, how are you?",
     upiIds |-> <<[full |-> <<"r","a","h","u","l",".","k","@","p","a","y","t","m">>, group |-> <<"p","a","y","t","m">>]>>,
     bankAccounts |-> <<>>,
     phoneNumbers |-> <<>>,
     phishingLinks |-> <<>>,
     shortenedLinks |-> <<>>,
     keywords |-> {<<"n","o","w">>, <<"p","a","y">>, <<"s","e","n","d">>}],
    [id |-> "send to rahul.k@paytm now, and amit@paytm",
     upiIds |-> <<[full |-> <<"r","a","h","u","l",".","k","@","p","a","y","t","m">>, group |-> <<"p","a","y","t","m">>], [full |-> <<"a","m","i","t","@","p","a","y","t","m">>, group |-> <<"p","a","y","t","m">>]>>,
     bankAccounts |-> <<>>,
     phoneNumbers |-> <<>>,
     phishingLinks |-> <<>>,
     shortenedLinks |-> <<>>,
     keywords |-> {<<"n","o","w">>, <<"p","a","y">>, <<"s","e","n","d">>}],
    [id |-> "or pay priya@ybl, contact me at office@company.com",
     upiIds |-> <<[full |-> <<"p","r","i","y","a","@","y","b","l">>, group |-> <<"y","b","l">>]>>,
     bankAccounts |-> <<>>,
     phoneNumbers |-> <<>>,
     phishingLinks |-> <<>>,
     shortenedLinks |-> <<>>,
     keywords |-> {<<"p","a","y">>}],
    [id |-> "or pay priya@ybl, Update immediately at bit.ly/fake-kyc",
     upiIds |-> <<[full |-> <<"p","r","i","y","a","@","y","b","l">>, group |-> <<"y","b","l">>]>>,
     bankAccounts |-> <<>>,
     phoneNumbers |-> <<>>,
     phishingLinks |-> <<>>,
     shortenedLinks |-> <<[full |-> <<"b","i","t",".","l","y","/","f","a","k","e">>, group |-> <<"b","i","t",".","l","y">>]>>,
     keywords |-> {<<"i","m","m","e","d","i","a","t","e","l","y">>, <<"u","p","d","a","t","e">>, <<"p","a","y">>}],
    [id |-> "or pay priya@ybl, visit http://evil.com/kyc",
     upiIds |-> <<[full |-> <<"p","r","i","y","a","@","y","b","l">>, group |-> <<"y","b","l">>]>>,
     bankAccounts |-> <<>>,
     phoneNumbers |-> <<>>,
     phishingLinks |-> <<[full |-> <<"h","t","t","p",":","/","/","e","v","i","l",".","c","o","m">>, group |-> <<>>]>>,
     shortenedLinks |-> <<>>,
     keywords |-> {<<"p","a","y">>}],
    [id |-> "or pay priya@ybl, +91 9876543210",
     upiIds |-> <<[full |-> <<"p","r","i","y","a","@","y","b","l">>, group |-> <<"y","b","l">>]>>,
     bankAccounts |-> <<>>,
     phoneNumbers |-> <<[full |-> <<"+","9","1"," ","9","8","7","6","5","4","3","2","1","0">>, group |-> <<>>]>>,
     phishingLinks |-> <<>>,
     shortenedLinks |-> <<>>,
     keywords |-> {<<"p","a","y">>}],
    [id |-> "or pay priya@ybl, 09876543210",
     upiIds |-> <<[full |-> <<"p","r","i","y","a","@","y","b","l">>, group |-> <<"y","b","l">>]>>,
     bankAccounts |-> <<>>,
     phoneNumbers |-> <<[full |-> <<"0","9","8","7","6","5","4","3","2","1","0">>, group |-> <<>>]>>,
     phishingLinks |-> <<>>,
     shortenedLinks |-> <<>>,
     keywords |-> {<<"p","a","y">>}],
    [id |-> "or pay priya@ybl, 919876543210",
     upiIds |-> <<[full |-> <<"p","r","i","y","a","@","y","b","l">>, group |-> <<"y","b","l">>]>>,
     bankAccounts |-> <<>>,
     phoneNumbers |-> <<[full |-> <<"9","1","9","8","7","6","5","4","3","2","1","0">>, group |-> <<>>]>>,
     phishingLinks |-> <<>>,
     shortenedLinks |-> <<>>,
     keywords |-> {<<"p","a","y">>}],
    [id |-> "or pay priya@ybl, 12345",
     upiIds |-> <<[full |-> <<"p","r","i","y","a","@","y","b","l">>, group |-> <<"y","b","l">>]>>,
     bankAccounts |-> <<>>,
     phoneNumbers |-> <<>>,
     phishingLinks |-> <<>>,
     shortenedLinks |-> <<>>,
     keywords |-> {<<"p","a","y">>}],
    [id |-> "or pay priya@ybl, call 8123456789",
     upiIds |-> <<[full |-> <<"p","r","i","y","a","@","y","b","l">>, group |-> <<"y","b","l">>]>>,
     bankAccounts |-> <<>>,
     phoneNumbers |-> <<[full |-> <<"8","1","2","3","4","5","6","7","8","9">>, group |-> <<>>]>>,
     phishingLinks |-> <<>>,
     shortenedLinks |-> <<>>,
     keywords |-> {<<"p","a","y">>}],
    [id |-> "or pay priya@ybl, transfer to a/c 123456789012",
     upiIds |-> <<[full |-> <<"p","r","i","y","a","@","y","b","l">>, group |-> <<"y","b","l">>]>>,
     bankAccounts |-> <<[full |-> <<"a","/","c"," ","1","2","3","4","5","6","7","8","9","0","1","2">>, group |-> <<"1","2","3","4","5","6","7","8","9","0","1","2">>]>>,
     phoneNumbers |-> <<>>,
     phishingLinks |-> <<>>,
     shortenedLinks |-> <<>>,
     keywords |-> {<<"p","a","y">>, <<"t","r","a","n","s","f","e","r">>}],
    [id |-> "or pay priya@ybl, Send to RAHUL.K@PAYTM",
     upiIds |-> <<[full |-> <<"p","r","i","y","a","@","y","b","l">>, group |-> <<"y","b","l">>], [full |-> <<"R","A","H","U","L",".","K","@","P","A","Y","T","M">>, group |-> <<"P","A","Y","T","M">>]>>,
     bankAccounts |-> <<>>,
     phoneNumbers |-> <<>>,
     phishingLinks |-> <<>>,
     shortenedLinks |-> <<>>,
     keywords |-> {<<"p","a","y">>, <<"s","e","n","d">>}],
    [id |-> "or pay priya@ybl, +91 09876543210",
     upiIds |-> <<[full |-> <<"p","r","i","y","a","@","y","b","l">>, group |-> <<"y","b","l">>]>>,
     bankAccounts |-> <<>>,
     phoneNumbers |-> <<[full |-> <<"+","9","1"," ","0","9","8","7","6","5","4","3","2","1","0">>, group |-> <<>>]>>,
     phishingLinks |-> <<>>,
     shortenedLinks |-> <<>>,
     keywords |-> {<<"p","a","y">>}],
    [id |-> "or pay priya@ybl, Hello, how are you?",
     upiIds |-> <<[full |-> <<"p","r","i","y","a","@","y","b","l">>, group |-> <<"y","b","l">>]>>,
     bankAccounts |-> <<>>,
     phoneNumbers |-> <<>>,
     phishingLinks |-> <<>>,
     shortenedLinks |-> <<>>,
     keywords |-> {<<"p","a","y">>}],
    [id |-> "or pay priya@ybl, and amit@paytm",
     upiIds |-> <<[full |-> <<"p","r","i","y","a","@","y","b","l">>, group |-> <<"y","b","l">>], [full |-> <<"a","m","i","t","@","p","a","y","t","m">>, group |-> <<"p","a","y","t","m">>]>>,
     bankAccounts |-> <<>>,
     phoneNumbers |-> <<>>,
     phishingLinks |-> <<>>,
     shortenedLinks |-> <<>>,
     keywords |-> {<<"p","a","y">>}],
    [id |-> "contact me at office@company.com, Update immediately at bit.ly/fake-kyc",
     upiIds |-> <<>>,
     bankAccounts |-> <<>>,
     phoneNumbers |-> <<>>,
     phishingLinks |-> <<>>,
     shortenedLinks |-> <<[full |-> <<"b","i","t",".","l","y","/","f","a","k","e">>, group |-> <<"b","i","t",".","l","y">>]>>,
     keywords |-> {<<"i","m","m","e","d","i","a","t","e","l","y">>, <<"u","p","d","a","t","e">>}],
    [id |-> "contact me at office@company.com, visit http://evil.com/kyc",
     upiIds |-> <<>>,
     bankAccounts |-> <<>>,
     phoneNumbers |-> <<>>,
     phishingLinks |-> <<[full |-> <<"h","t","t","p",":","/","/","e","v","i","l",".","c","o","m">>, group |-> <<>>]>>,
     shortenedLinks |-> <<>>,
     keywords |-> {}],
    [id |-> "contact me at office@company.com, +91 9876543210",
     upiIds |-> <<>>,
     bankAccounts |-> <<>>,
     phoneNumbers |-> <<[full |-> <<"+","9","1"," ","9","8","7","6","5","4","3","2","1","0">>, group |-> <<>>]>>,
     phishingLinks |-> <<>>,
     shortenedLinks |-> <<>>,
     keywords |-> {}],
    [id |-> "contact me at office@company.com, 09876543210",
     upiIds |-> <<>>,
     bankAccounts |-> <<>>,
     phoneNumbers |-> <<[full |-> <<"0","9","8","7","6","5","4","3","2","1","0">>, group |-> <<>>]>>,
     phishingLinks |-> <<>>,
     shortenedLinks |-> <<>>,
     keywords |-> {}],
    [id |-> "contact me at office@company.com, 919876543210",
     upiIds |-> <<>>,
     bankAccounts |-> <<>>,
     phoneNumbers |-> <<[full |-> <<"9","1","9","8","7","6","5","4","3","2","1","0">>, group |-> <<>>]>>,
     phishingLinks |-> <<>>,
     shortenedLinks |-> <<>>,
     keywords |-> {}],
    [id |-> "contact me at office@company.com, 12345",
     upiIds |-> <<>>,
     bankAccounts |-> <<>>,
     phoneNumbers |-> <<>>,
     phishingLinks |-> <<>>,
     shortenedLinks |-> <<>>,
     keywords |-> {}],
    [id |-> "contact me at office@company.com, call 8123456789",
     upiIds |-> <<>>,
     bankAccounts |-> <<>>,
     phoneNumbers |-> <<[full |-> <<"8","1","2","3","4","5","6","7","8","9">>, group |-> <<>>]>>,
     phishingLinks |-> <<>>,
     shortenedLinks |-> <<>>,
     keywords |-> {}],
    [id |-> "contact me at office@company.com, transfer to a/c 123456789012",
     upiIds |-> <<>>,
     bankAccounts |-> <<[full |-> <<"a","/","c"," ","1","2","3","4","5","6","7","8","9","0","1","2">>, group |-> <<"1","2","3","4","5","6","7","8","9","0","1","2">>]>>,
     phoneNumbers |-> <<>>,
     phishingLinks |-> <<>>,
     shortenedLinks |-> <<>>,
     keywords |-> {<<"t","r","a","n","s","f","e","r">>}],
    [id |-> "contact me at office@company.com, Send to RAHUL.K@PAYTM",
     upiIds |-> <<[full |-> <<"R","A","H","U","L",".","K","@","P","A","Y","T","M">>, group |-> <<"P","A","Y","T","M">>]>>,
     bankAccounts |-> <<>>,
     phoneNumbers |-> <<>>,
     phishingLinks |-> <<>>,
     shortenedLinks |-> <<>>,
     keywords |-> {<<"p","a","y">>, <<"s","e","n","d">>}],
    [id |-> "contact me at office@company.com, +91 09876543210",
     upiIds |-> <<>>,
     bankAccounts |-> <<>>,
     phoneNumbers |-> <<[full |-> <<"+","9","1"," ","0","9","8","7","6","5","4","3","2","1","0">>, group |-> <<>>]>>,
     phishingLinks |-> <<>>,
     shortenedLinks |-> <<>>,
     keywords |-> {}],
    [id |-> "contact me at office@company.com, Hello, how are you?",
     upiIds |-> <<>>,
     bankAccounts |-> <<>>,
     phoneNumbers |-> <<>>,
     phishingLinks |-> <<>>,
     shortenedLinks |-> <<>>,
     keywords |-> {}],
    [id |-> "contact me at office@company.com, and amit@paytm",
     upiIds |-> <<[full |-> <<"a","m","i","t","@","p","a","y","t","m">>, group |-> <<"p","a","y","t","m">>]>>,
     bankAccounts |-> <<>>,
     phoneNumbers |-> <<>>,
     phishingLinks |-> <<>>,
     shortenedLinks |-> <<>>,
     keywords |-> {<<"p","a","y">>}],
    [id |-> "Update immediately at bit.ly/fake-kyc, visit http://evil.com/kyc",
     upiIds |-> <<>>,
     bankAccounts |-> <<>>,
     phoneNumbers |-> <<>>,
     phishingLinks |-> <<[full |-> <<"h","t","t","p",":","/","/","e","v","i","l",".","c","o","m">>, group |-> <<>>]>>,
     shortenedLinks |-> <<[full |-> <<"b","i","t",".","l","y","/","f","a","k","e">>, group |-> <<"b","i","t",".","l","y">>]>>,
     keywords |-> {<<"i","m","m","e","d","i","a","t","e","l","y">>, <<"u","p","d","a","t","e">>}],
    [id |-> "Update immediately at bit.ly/fake-kyc, +91 9876543210",
     upiIds |-> <<>>,
     bankAccounts |-> <<>>,
     phoneNumbers |-> <<[full |-> <<"+","9","1"," ","9","8","7","6","5","4","3","2","1","0">>, group |-> <<>>]>>,
     phishingLinks |-> <<>>,
     shortenedLinks |-> <<[full |-> <<"b","i","t",".","l","y","/","f","a","k","e">>, group |-> <<"b","i","t",".","l","y">>]>>,
     keywords |-> {<<"i","m","m","e","d","i","a","t","e","l","y">>, <<"u","p","d","a","t","e">>}],
    [id |-> "Update immediately at bit.ly/fake-kyc, 09876543210",
     upiIds |-> <<>>,
     bankAccounts |-> <<>>,
     phoneNumbers |-> <<[full |-> <<"0","9","8","7","6","5","4","3","2","1","0">>, group |-> <<>>]>>,
     phishingLinks |-> <<>>,
     shortenedLinks |-> <<[full |-> <<"b","i","t",".","l","y","/","f","a","k","e">>, group |-> <<"b","i","t",".","l","y">>]>>,
     keywords |-> {<<"i","m","m","e","d","i","a","t","e","l","y">>, <<"u","p","d","a","t","e">>}],
    [id |-> "Update immediately at bit.ly/fake-kyc, 919876543210",
     upiIds |-> <<>>,
     bankAccounts |-> <<>>,
     phoneNumbers |-> <<[full |-> <<"9","1","9","8","7","6","5","4","3","2","1","0">>, group |-> <<>>]>>,
     phishingLinks |-> <<>>,
     shortenedLinks |-> <<[full |-> <<"b","i","t",".","l","y","/","f","a","k","e">>, group |-> <<"b","i","t",".","l","y">>]>>,
     keywords |-> {<<"i","m","m","e","d","i","a","t","e","l","y">>, <<"u","p","d","a","t","e">>}],
    [id |-> "Update immediately at bit.ly/fake-kyc, 12345",
     upiIds |-> <<>>,
     bankAccounts |-> <<>>,
     phoneNumbers |-> <<>>,
     phishingLinks |-> <<>>,
     shortenedLinks |-> <<[full |-> <<"b","i","t",".","l","y","/","f","a","k","e">>, group |-> <<"b","i","t",".","l","y">>]>>,
     keywords |-> {<<"i","m","m","e","d","i","a","t","e","l","y">>, <<"u","p","d","a","t","e">>}],
    [id |-> "Update immediately at bit.ly/fake-kyc, call 8123456789",
     upiIds |-> <<>>,
     bankAccounts |-> <<>>,
     phoneNumbers |-> <<[full |-> <<"8","1","2","3","4","5","6","7","8","9">>, group |-> <<>>]>>,
     phishingLinks |-> <<>>,
     shortenedLinks |-> <<[full |-> <<"b","i","t",".","l","y","/","f","a","k","e">>, group |-> <<"b","i","t",".","l","y">>]>>,
     keywords |-> {<<"i","m","m","e","d","i","a","t","e","l","y">>, <<"u","p","d","a","t","e">>}],
    [id |-> "Update immediately at bit.ly/fake-kyc, transfer to a/c 123456789012",
     upiIds |-> <<>>,
     bankAccounts |-> <<[full |-> <<"a","/","c"," ","1","2","3","4","5","6","7","8","9","0","1","2">>, group |-> <<"1","2","3","4","5","6","7","8","9","0","1","2">>]>>,
     phoneNumbers |-> <<>>,
     phishingLinks |-> <<>>,
     shortenedLinks |-> <<[full |-> <<"b","i","t",".","l","y","/","f","a","k","e">>, group |-> <<"b","i","t",".","l","y">>]>>,
     keywords |-> {<<"i","m","m","e","d","i","a","t","e","l","y">>, <<"u","p","d","a","t","e">>, <<"t","r","a","n","s","f","e","r">>}],
    [id |-> "Update immediately at bit.ly/fake-kyc, Send to RAHUL.K@PAYTM",
     upiIds |-> <<[full |-> <<"R","A","H","U","L",".","K","@","P","A","Y","T","M">>, group |-> <<"P","A","Y","T","M">>]>>,
     bankAccounts |-> <<>>,
     phoneNumbers |-> <<>>,
     phishingLinks |-> <<>>,
     shortenedLinks |-> <<[full |-> <<"b","i","t",".","l","y","/","f","a","k","e">>, group |-> <<"b","i","t",".","l","y">>]>>,
     keywords |-> {<<"i","m","m","e","d","i","a","t","e","l","y">>, <<"u","p","d","a","t","e">>, <<"p","a","y">>, <<"s","e","n","d">>}],
    [id |-> "Update immediately at bit.ly/fake-kyc, +91 09876543210",
     upiIds |-> <<>>,
     bankAccounts |-> <<>>,
     phoneNumbers |-> <<[full |-> <<"+","9","1"," ","0","9","8","7","6","5","4","3","2","1","0">>, group |-> <<>>]>>,
     phishingLinks |-> <<>>,
     shortenedLinks |-> <<[full |-> <<"b","i","t",".","l","y","/","f","a","k","e">>, group |-> <<"b","i","t",".","l","y">>]>>,
     keywords |-> {<<"i","m","m","e","d","i","a","t","e","l","y">>, <<"u","p","d","a","t","e">>}],
    [id |-> "Update immediately at bit.ly/fake-kyc, Hello, how are you?",
     upiIds |-> <<>>,
     bankAccounts |-> <<>>,
     phoneNumbers |-> <<>>,
     phishingLinks |-> <<>>,
     shortenedLinks |-> <<[full |-> <<"b","i","t",".","l","y","/","f","a","k","e">>, group |-> <<"b","i","t",".","l","y">>]>>,
     keywords |-> {<<"i","m","m","e","d","i","a","t","e","l","y">>, <<"u","p","d","a","t","e">>}],
    [id |-> "Update immediately at bit.ly/fake-kyc, and amit@paytm",
     upiIds |-> <<[full |-> <<"a","m","i","t","@","p","a","y","t","m">>, group |-> <<"p","a","y","t","m">>]>>,
     bankAccounts |-> <<>>,
     phoneNumbers |-> <<>>,
     phishingLinks |-> <<>>,
     shortenedLinks |-> <<[full |-> <<"b","i","t",".","l","y","/","f","a","k","e">>, group |-> <<"b","i","t",".","l","y">>]>>,
     keywords |-> {<<"i","m","m","e","d","i","a","t","e","l","y">>, <<"u","p","d","a","t","e">>, <<"p","a","y">>}],
    [id |-> "visit http://evil.com/kyc, +91 9876543210",
     upiIds |-> <<>>,
     bankAccounts |-> <<>>,
     phoneNumbers |-> <<[full |-> <<"+","9","1"," ","9","8","7","6","5","4","3","2","1","0">>, group |-> <<>>]>>,
     phishingLinks |-> <<[full |-> <<"h","t","t","p",":","/","/","e","v","i","l",".","c","o","m">>, group |-> <<>>]>>,
     shortenedLinks |-> <<>>,
     keywords |-> {}],
    [id |-> "visit http://evil.com/kyc, 09876543210",
     upiIds |-> <<>>,
     bankAccounts |-> <<>>,
     phoneNumbers |-> <<[full |-> <<"0","9","8","7","6","5","4","3","2","1","0">>, group |-> <<>>]>>,
     phishingLinks |-> <<[full |-> <<"h","t","t","p",":","/","/","e","v","i","l",".","c","o","m">>, group |-> <<>>]>>,
     shortenedLinks |-> <<>>,
     keywords |-> {}],
    [id |-> "visit http://evil.com/kyc, 919876543210",
     upiIds |-> <<>>,
     bankAccounts |-> <<>>,
     phoneNumbers |-> <<[full |-> <<"9","1","9","8","7","6","5","4","3","2","1","0">>, group |-> <<>>]>>,
     phishingLinks |-> <<[full |-> <<"h","t","t","p",":","/","/","e","v","i","l",".","c","o","m">>, group |-> <<>>]>>,
     shortenedLinks |-> <<>>,
     keywords |-> {}],
    [id |-> "visit http://evil.com/kyc, 12345",
     upiIds |-> <<>>,
     bankAccounts |-> <<>>,
     phoneNumbers |-> <<>>,
     phishingLinks |-> <<[full |-> <<"h","t","t","p",":","/","/","e","v","i","l",".","c","o","m">>, group |-> <<>>]>>,
     shortenedLinks |-> <<>>,
     keywords |-> {}],
    [id |-> "visit http://evil.com/kyc, call 8123456789",
     upiIds |-> <<>>,
     bankAccounts |-> <<>>,
     phoneNumbers |-> <<[full |-> <<"8","1","2","3","4","5","6","7","8","9">>, group |-> <<>>]>>,
     phishingLinks |-> <<[full |-> <<"h","t","t","p",":","/","/","e","v","i","l",".","c","o","m">>, group |-> <<>>]>>,
     shortenedLinks |-> <<>>,
     keywords |-> {}],
    [id |-> "visit http://evil.com/kyc, transfer to a/c 123456789012",
     upiIds |-> <<>>,
     bankAccounts |-> <<[full |-> <<"a","/","c"," ","1","2","3","4","5","6","7","8","9","0","1","2">>, group |-> <<"1","2","3","4","5","6","7","8","9","0","1","2">>]>>,
     phoneNumbers |-> <<>>,
     phishingLinks |-> <<[full |-> <<"h","t","t","p",":","/","/","e","v","i","l",".","c","o","m">>, group |-> <<>>]>>,
     shortenedLinks |-> <<>>,
     keywords |-> {<<"t","r","a","n","s","f","e","r">>}],
    [id |-> "visit http://evil.com/kyc, Send to RAHUL.K@PAYTM",
     upiIds |-> <<[full |-> <<"R","A","H","U","L",".","K","@","P","A","Y","T","M">>, group |-> <<"P","A","Y","T","M">>]>>,
     bankAccounts |-> <<>>,
     phoneNumbers |-> <<>>,
     phishingLinks |-> <<[full |-> <<"h","t","t","p",":","/","/","e","v","i","l",".","c","o","m">>, group |-> <<>>]>>,
     shortenedLinks |-> <<>>,
     keywords |-> {<<"p","a","y">>, <<"s","e","n","d">>}],
    [id |-> "visit http://evil.com/kyc, +91 09876543210",
     upiIds |-> <<>>,
     bankAccounts |-> <<>>,
     phoneNumbers |-> <<[full |-> <<"+","9","1"," ","0","9","8","7","6","5","4","3","2","1","0">>, group |-> <<>>]>>,
     phishingLinks |-> <<[full |-> <<"h","t","t","p",":","/","/","e","v","i","l",".","c","o","m">>, group |-> <<>>]>>,
     shortenedLinks |-> <<>>,
     keywords |-> {}],
    [id |-> "visit http://evil.com/kyc, Hello, how are you?",
     upiIds |-> <<>>,
     bankAccounts |-> <<>>,
     phoneNumbers |-> <<>>,
     phishingLinks |-> <<[full |-> <<"h","t","t","p",":","/","/","e","v","i","l",".","c","o","m">>, group |-> <<>>]>>,
     shortenedLinks |-> <<>>,
     keywords |-> {}],
    [id |-> "visit http://evil.com/kyc, and amit@paytm",
     upiIds |-> <<[full |-> <<"a","m","i","t","@","p","a","y","t","m">>, group |-> <<"p","a","y","t","m">>]>>,
     bankAccounts |-> <<>>,
     phoneNumbers |-> <<>>,
     phishingLinks |-> <<[full |-> <<"h","t","t","p",":","/","/","e","v","i","l",".","c","o","m">>, group |-> <<>>]>>,
     shortenedLinks |-> <<>>,
     keywords |-> {<<"p","a","y">>}],
    [id |-> "+91 9876543210, 09876543210",
     upiIds |-> <<>>,
     bankAccounts |-> <<>>,
     phoneNumbers |-> <<[full |-> <<"+","9","1"," ","9","8","7","6","5","4","3","2","1","0">>, group |-> <<>>], [full |-> <<"0","9","8","7","6","5","4","3","2","1","0">>, group |-> <<>>]>>,
     phishingLinks |-> <<>>,
     shortenedLinks |-> <<>>,
     keywords |-> {}],
    [id |-> "+91 9876543210, 919876543210",
     upiIds |-> <<>>,
     bankAccounts |-> <<>>,
     phoneNumbers |-> <<[full |-> <<"+","9","1"," ","9","8","7","6","5","4","3","2","1","0">>, group |-> <<>>], [full |-> <<"9","1","9","8","7","6","5","4","3","2","1","0">>, group |-> <<>>]>>,
     phishingLinks |-> <<>>,
     shortenedLinks |-> <<>>,
     keywords |-> {}],
    [id |-> "+91 9876543210, 12345",
     upiIds |-> <<>>,
     bankAccounts |-> <<>>,
     phoneNumbers |-> <<[full |-> <<"+","9","1"," ","9","8","7","6","5","4","3","2","1","0">>, group |-> <<>>]>>,
     phishingLinks |-> <<>>,
     shortenedLinks |-> <<>>,
     keywords |-> {}],
    [id |-> "+91 9876543210, call 8123456789",
     upiIds |-> <<>>,
     bankAccounts |-> <<>>,
     phoneNumbers |-> <<[full |-> <<"+","9","1"," ","9","8","7","6","5","4","3","2","1","0">>, group |-> <<>>], [full |-> <<"8","1","2","3","4","5","6","7","8","9">>, group |-> <<>>]>>,
     phishingLinks |-> <<>>,
     shortenedLinks |-> <<>>,
     keywords |-> {}],
    [id |-> "+91 9876543210, transfer to a/c 123456789012",
     upiIds |-> <<>>,
     bankAccounts |-> <<[full |-> <<"a","/","c"," ","1","2","3","4","5","6","7","8","9","0","1","2">>, group |-> <<"1","2","3","4","5","6","7","8","9","0","1","2">>]>>,
     phoneNumbers |-> <<[full |-> <<"+","9","1"," ","9","8","7","6","5","4","3","2","1","0">>, group |-> <<>>]>>,
     phishingLinks |-> <<>>,
     shortenedLinks |-> <<>>,
     keywords |-> {<<"t","r","a","n","s","f","e","r">>}],
    [id |-> "+91 9876543210, Send to RAHUL.K@PAYTM",
     upiIds |-> <<[full |-> <<"R","A","H","U","L",".","K","@","P","A","Y","T","M">>, group |-> <<"P","A","Y","T","M">>]>>,
     bankAccounts |-> <<>>,
     phoneNumbers |-> <<[full |-> <<"+","9","1"," ","9","8","7","6","5","4","3","2","1","0">>, group |-> <<>>]>>,
     phishingLinks |-> <<>>,
     shortenedLinks |-> <<>>,
     keywords |-> {<<"p","a","y">>, <<"s","e","n","d">>}],
    [id |-> "+91 9876543210, +91 09876543210",
     upiIds |-> <<>>,
     bankAccounts |-> <<>>,
     phoneNumbers |-> <<[full |-> <<"+","9","1"," ","9","8","7","6","5","4","3","2","1","0">>, group |-> <<>>], [full |-> <<"+","9","1"," ","0","9","8","7","6","5","4","3","2","1","0">>, group |-> <<>>]>>,
     phishingLinks |-> <<>>,
     shortenedLinks |-> <<>>,
     keywords |-> {}],
    [id |-> "+91 9876543210, Hello, how are you?",
     upiIds |-> <<>>,
     bankAccounts |-> <<>>,
     phoneNumbers |-> <<[full |-> <<"+","9","1"," ","9","8","7","6","5","4","3","2","1","0">>, group |-> <<>>]>>,
     phishingLinks |-> <<>>,
     shortenedLinks |-> <<>>,
     keywords |-> {}],
    [id |-> "+91 9876543210, and amit@paytm",
     upiIds |-> <<[full |-> <<"a","m","i","t","@","p","a","y","t","m">>, group |-> <<"p","a","y","t","m">>]>>,
     bankAccounts |-> <<>>,
     phoneNumbers |-> <<[full |-> <<"+","9","1"," ","9","8","7","6","5","4","3","2","1","0">>, group |-> <<>>]>>,
     phishingLinks |-> <<>>,
     shortenedLinks |-> <<>>,
     keywords |-> {<<"p","a","y">>}],
    [id |-> "09876543210, 919876543210",
     upiIds |-> <<>>,
     bankAccounts |-> <<>>,
     phoneNumbers |-> <<[full |-> <<"0","9","8","7","6","5","4","3","2","1","0">>, group |-> <<>>], [full |-> <<"9","1","9","8","7","6","5","4","3","2","1","0">>, group |-> <<>>]>>,
     phishingLinks |-> <<>>,
     shortenedLinks |-> <<>>,
     keywords |-> {}],
    [id |-> "09876543210, 12345",
     upiIds |-> <<>>,
     bankAccounts |-> <<>>,
     phoneNumbers |-> <<[full |-> <<"0","9","8","7","6","5","4","3","2","1","0">>, group |-> <<>>]>>,
     phishingLinks |-> <<>>,
     shortenedLinks |-> <<>>,
     keywords |-> {}],
    [id |-> "09876543210, call 8123456789",
     upiIds |-> <<>>,
     bankAccounts |-> <<>>,
     phoneNumbers |-> <<[full |-> <<"0","9","8","7","6","5","4","3","2","1","0">>, group |-> <<>>], [full |-> <<"8","1","2","3","4","5","6","7","8","9">>, group |-> <<>>]>>,
     phishingLinks |-> <<>>,
     shortenedLinks |-> <<>>,
     keywords |-> {}],
    [id |-> "09876543210, transfer to a/c 123456789012",
     upiIds |-> <<>>,
     bankAccounts |-> <<[full |-> <<"a","/","c"," ","1","2","3","4","5","6","7","8","9","0","1","2">>, group |-> <<"1","2","3","4","5","6","7","8","9","0","1","2">>]>>,
     phoneNumbers |-> <<[full |-> <<"0","9","8","7","6","5","4","3","2","1","0">>, group |-> <<>>]>>,
     phishingLinks |-> <<>>,
     shortenedLinks |-> <<>>,
     keywords |-> {<<"t","r","a","n","s","f","e","r">>}],
    [id |-> "09876543210, Send to RAHUL.K@PAYTM",
     upiIds |-> <<[full |-> <<"R","A","H","U","L",".","K","@","P","A","Y","T","M">>, group |-> <<"P","A","Y","T","M">>]>>,
     bankAccounts |-> <<>>,
     phoneNumbers |-> <<[full |-> <<"0","9","8","7","6","5","4","3","2","1","0">>, group |-> <<>>]>>,
     phishingLinks |-> <<>>,
     shortenedLinks |-> <<>>,
     keywords |-> {<<"p","a","y">>, <<"s","e","n","d">>}],
    [id |-> "09876543210, +91 09876543210",
     upiIds |-> <<>>,
     bankAccounts |-> <<>>,
     phoneNumbers |-> <<[full |-> <<"0","9","8","7","6","5","4","3","2","1","0">>, group |-> <<>>], [full |-> <<"+","9","1"," ","0","9","8","7","6","5","4","3","2","1","0">>, group |-> <<>>]>>,
     phishingLinks |-> <<>>,
     shortenedLinks |-> <<>>,
     keywords |-> {}],
    [id |-> "09876543210, Hello, how are you?",
     upiIds |-> <<>>,
     bankAccounts |-> <<>>,
     phoneNumbers |-> <<[full |-> <<"0","9","8","7","6","5","4","3","2","1","0">>, group |-> <<>>]>>,
     phishingLinks |-> <<>>,
     shortenedLinks |-> <<>>,
     keywords |-> {}],
    [id |-> "09876543210, and amit@paytm",
     upiIds |-> <<[full |-> <<"a","m","i","t","@","p","a","y","t","m">>, group |-> <<"p","a","y","t","m">>]>>,
     bankAccounts |-> <<>>,
     phoneNumbers |-> <<[full |-> <<"0","9","8","7","6","5","4","3","2","1","0">>, group |-> <<>>]>>,
     phishingLinks |-> <<>>,
     shortenedLinks |-> <<>>,
     keywords |-> {<<"p","a","y">>}],
    [id |-> "919876543210, 12345",
     upiIds |-> <<>>,
     bankAccounts |-> <<>>,
     phoneNumbers |-> <<[full |-> <<"9","1","9","8","7","6","5","4","3","2","1","0">>, group |-> <<>>]>>,
     phishingLinks |-> <<>>,
     shortenedLinks |-> <<>>,
     keywords |-> {}],
    [id |-> "919876543210, call 8123456789",
     upiIds |-> <<>>,
     bankAccounts |-> <<>>,
     phoneNumbers |-> <<[full |-> <<"9","1","9","8","7","6","5","4","3","2","1","0">>, group |-> <<>>], [full |-> <<"8","1","2","3","4","5","6","7","8","9">>, group |-> <<>>]>>,
     phishingLinks |-> <<>>,
     shortenedLinks |-> <<>>,
     keywords |-> {}],
    [id |-> "919876543210, transfer to a/c 123456789012",
     upiIds |-> <<>>,
     bankAccounts |-> <<[full |-> <<"a","/","c"," ","1","2","3","4","5","6","7","8","9","0","1","2">>, group |-> <<"1","2","3","4","5","6","7","8","9","0","1","2">>]>>,
     phoneNumbers |-> <<[full |-> <<"9","1","9","8","7","6","5","4","3","2","1","0">>, group |-> <<>>]>>,
     phishingLinks |-> <<>>,
     shortenedLinks |-> <<>>,
     keywords |-> {<<"t","r","a","n","s","f","e","r">>}],
    [id |-> "919876543210, Send to RAHUL.K@PAYTM",
     upiIds |-> <<[full |-> <<"R","A","H","U","L",".","K","@","P","A","Y","T","M">>, group |-> <<"P","A","Y","T","M">>]>>,
     bankAccounts |-> <<>>,
     phoneNumbers |-> <<[full |-> <<"9","1","9","8","7","6","5","4","3","2","1","0">>, group |-> <<>>]>>,
     phishingLinks |-> <<>>,
     shortenedLinks |-> <<>>,
     keywords |-> {<<"p","a","y">>, <<"s","e","n","d">>}],
    [id |-> "919876543210, +91 09876543210",
     upiIds |-> <<>>,
     bankAccounts |-> <<>>,
     phoneNumbers |-> <<[full |-> <<"9","1","9","8","7","6","5","4","3","2","1","0">>, group |-> <<>>], [full |-> <<"+","9","1"," ","0","9","8","7","6","5","4","3","2","1","0">>, group |-> <<>>]>>,
     phishingLinks |-> <<>>,
     shortenedLinks |-> <<>>,
     keywords |-> {}],
    [id |-> "919876543210, Hello, how are you?",
     upiIds |-> <<>>,
     bankAccounts |-> <<>>,
     phoneNumbers |-> <<[full |-> <<"9","1","9","8","7","6","5","4","3","2","1","0">>, group |-> <<>>]>>,
     phishingLinks |-> <<>>,
     shortenedLinks |-> <<>>,
     keywords |-> {}],
    [id |-> "919876543210, and amit@paytm",
     upiIds |-> <<[full |-> <<"a","m","i","t","@","p","a","y","t","m">>, group |-> <<"p","a","y","t","m">>]>>,
     bankAccounts |-> <<>>,
     phoneNumbers |-> <<[full |-> <<"9","1","9","8","7","6","5","4","3","2","1","0">>, group |-> <<>>]>>,
     phishingLinks |-> <<>>,
     shortenedLinks |-> <<>>,
     keywords |-> {<<"p","a","y">>}],
    [id |-> "12345, call 8123456789",
     upiIds |-> <<>>,
     bankAccounts |-> <<>>,
     phoneNumbers |-> <<[full |-> <<"8","1","2","3","4","5","6","7","8","9">>, group |-> <<>>]>>,
     phishingLinks |-> <<>>,
     shortenedLinks |-> <<>>,
     keywords |-> {}],
    [id |-> "12345, transfer to a/c 123456789012",
     upiIds |-> <<>>,
     bankAccounts |-> <<[full |-> <<"a","/","c"," ","1","2","3","4","5","6","7","8","9","0","1","2">>, group |-> <<"1","2","3","4","5","6","7","8","9","0","1","2">>]>>,
     phoneNumbers |-> <<>>,
     phishingLinks |-> <<>>,
     shortenedLinks |-> <<>>,
     keywords |-> {<<"t","r","a","n","s","f","e","r">>}],
    [id |-> "12345, Send to RAHUL.K@PAYTM",
     upiIds |-> <<[full |-> <<"R","A","H","U","L",".","K","@","P","A","Y","T","M">>, group |-> <<"P","A","Y","T","M">>]>>,
     bankAccounts |-> <<>>,
     phoneNumbers |-> <<>>,
     phishingLinks |-> <<>>,
     shortenedLinks |-> <<>>,
     keywords |-> {<<"p","a","y">>, <<"s","e","n","d">>}],
    [id |-> "12345, +91 09876543210",
     upiIds |-> <<>>,
     bankAccounts |-> <<>>,
     phoneNumbers |-> <<[full |-> <<"+","9","1"," ","0","9","8","7","6","5","4","3","2","1","0">>, group |-> <<>>]>>,
     phishingLinks |-> <<>>,
     shortenedLinks |-> <<>>,
     keywords |-> {}],
    [id |-> "12345, Hello, how are you?",
     upiIds |-> <<>>,
     bankAccounts |-> <<>>,
     phoneNumbers |-> <<>>,
     phishingLinks |-> <<>>,
     shortenedLinks |-> <<>>,
     keywords |-> {}],
    [id |-> "12345, and amit@paytm",
     upiIds |-> <<[full |-> <<"a","m","i","t","@","p","a","y","t","m">>, group |-> <<"p","a","y","t","m">>]>>,
     bankAccounts |-> <<>>,
     phoneNumbers |-> <<>>,
     phishingLinks |-> <<>>,
     shortenedLinks |-> <<>>,
     keywords |-> {<<"p","a","y">>}],
    [id |-> "call 8123456789, transfer to a/c 123456789012",
     upiIds |-> <<>>,
     bankAccounts |-> <<[full |-> <<"a","/","c"," ","1","2","3","4","5","6","7","8","9","0","1","2">>, group |-> <<"1","2","3","4","5","6","7","8","9","0","1","2">>]>>,
     phoneNumbers |-> <<[full |-> <<"8","1","2","3","4","5","6","7","8","9">>, group |-> <<>>]>>,
     phishingLinks |-> <<>>,
     shortenedLinks |-> <<>>,
     keywords |-> {<<"t","r","a","n","s","f","e","r">>}],
    [id |-> "call 8123456789, Send to RAHUL.K@PAYTM",
     upiIds |-> <<[full |-> <<"R","A","H","U","L",".","K","@","P","A","Y","T","M">>, group |-> <<"P","A","Y","T","M">>]>>,
     bankAccounts |-> <<>>,
     phoneNumbers |-> <<[full |-> <<"8","1","2","3","4","5","6","7","8","9">>, group |-> <<>>]>>,
     phishingLinks |-> <<>>,
     shortenedLinks |-> <<>>,
     keywords |-> {<<"p","a","y">>, <<"s","e","n","d">>}],
    [id |-> "call 8123456789, +91 09876543210",
     upiIds |-> <<>>,
     bankAccounts |-> <<>>,
     phoneNumbers |-> <<[full |-> <<"8","1","2","3","4","5","6","7","8","9">>, group |-> <<>>], [full |-> <<"+","9","1"," ","0","9","8","7","6","5","4","3","2","1","0">>, group |-> <<>>]>>,
     phishingLinks |-> <<>>,
     shortenedLinks |-> <<>>,
     keywords |-> {}],
    [id |-> "call 8123456789, Hello, how are you?",
     upiIds |-> <<>>,
     bankAccounts |-> <<>>,
     phoneNumbers |-> <<[full |-> <<"8","1","2","3","4","5","6","7","8","9">>, group |-> <<>>]>>,
     phishingLinks |-> <<>>,
     shortenedLinks |-> <<>>,
     keywords |-> {}],
    [id |-> "call 8123456789, and amit@paytm",
     upiIds |-> <<[full |-> <<"a","m","i","t","@","p","a","y","t","m">>, group |-> <<"p","a","y","t","m">>]>>,
     bankAccounts |-> <<>>,
     phoneNumbers |-> <<[full |-> <<"8","1","2","3","4","5","6","7","8","9">>, group |-> <<>>]>>,
     phishingLinks |-> <<>>,
     shortenedLinks |-> <<>>,
     keywords |-> {<<"p","a","y">>}],
    [id |-> "transfer to a/c 123456789012, Send to RAHUL.K@PAYTM",
     upiIds |-> <<[full |-> <<"R","A","H","U","L",".","K","@","P","A","Y","T","M">>, group |-> <<"P","A","Y","T","M">>]>>,
     bankAccounts |-> <<[full |-> <<"a","/","c"," ","1","2","3","4","5","6","7","8","9","0","1","2">>, group |-> <<"1","2","3","4","5","6","7","8","9","0","1","2">>]>>,
     phoneNumbers |-> <<>>,
     phishingLinks |-> <<>>,
     shortenedLinks |-> <<>>,
     keywords |-> {<<"p","a","y">>, <<"s","e","n","d">>, <<"t","r","a","n","s","f","e","r">>}],
    [id |-> "transfer to a/c 123456789012, +91 09876543210",
     upiIds |-> <<>>,
     bankAccounts |-> <<[full |-> <<"a","/","c"," ","1","2","3","4","5","6","7","8","9","0","1","2">>, group |-> <<"1","2","3","4","5","6","7","8","9","0","1","2">>]>>,
     phoneNumbers |-> <<[full |-> <<"+","9","1"," ","0","9","8","7","6","5","4","3","2","1","0">>, group |-> <<>>]>>,
     phishingLinks |-> <<>>,
     shortenedLinks |-> <<>>,
     keywords |-> {<<"t","r","a","n","s","f","e","r">>}],
    [id |-> "transfer to a/c 123456789012, Hello, how are you?",
     upiIds |-> <<>>,
     bankAccounts |-> <<[full |-> <<"a","/","c"," ","1","2","3","4","5","6","7","8","9","0","1","2">>, group |-> <<"1","2","3","4","5","6","7","8","9","0","1","2">>]>>,
     phoneNumbers |-> <<>>,
     phishingLinks |-> <<>>,
     shortenedLinks |-> <<>>,
     keywords |-> {<<"t","r","a","n","s","f","e","r">>}],
    [id |-> "transfer to a/c 123456789012, and amit@paytm",
     upiIds |-> <<[full |-> <<"a","m","i","t","@","p","a","y","t","m">>, group |-> <<"p","a","y","t","m">>]>>,
     bankAccounts |-> <<[full |-> <<"a","/","c"," ","1","2","3","4","5","6","7","8","9","0","1","2">>, group |-> <<"1","2","3","4","5","6","7","8","9","0","1","2">>]>>,
     phoneNumbers |-> <<>>,
     phishingLinks |-> <<>>,
     shortenedLinks |-> <<>>,
     keywords |-> {<<"p","a","y">>, <<"t","r","a","n","s","f","e","r">>}],
    [id |-> "Send to RAHUL.K@PAYTM, +91 09876543210",
     upiIds |-> <<[full |-> <<"R","A","H","U","L",".","K","@","P","A","Y","T","M">>, group |-> <<"P","A","Y","T","M">>]>>,
     bankAccounts |-> <<>>,
     phoneNumbers |-> <<[full |-> <<"+","9","1"," ","0","9","8","7","6","5","4","3","2","1","0">>, group |-> <<>>]>>,
     phishingLinks |-> <<>>,
     shortenedLinks |-> <<>>,
     keywords |-> {<<"p","a","y">>, <<"s","e","n","d">>}],
    [id |-> "Send to RAHUL.K@PAYTM, Hello, how are you?",
     upiIds |-> <<[full |-> <<"R","A","H","U","L",".","K","@","P","A","Y","T","M">>, group |-> <<"P","A","Y","T","M">>]>>,
     bankAccounts |-> <<>>,
     phoneNumbers |-> <<>>,
     phishingLinks |-> <<>>,
     shortenedLinks |-> <<>>,
     keywords |-> {<<"p","a","y">>, <<"s","e","n","d">>}],
    [id |-> "Send to RAHUL.K@PAYTM, and amit@paytm",
     upiIds |-> <<[full |-> <<"R","A","H","U","L",".","K","@","P","A","Y","T","M">>, group |-> <<"P","A","Y","T","M">>], [full |-> <<"a","m","i","t","@","p","a","y","t","m">>, group |-> <<"p","a","y","t","m">>]>>,
     bankAccounts |-> <<>>,
     phoneNumbers |-> <<>>,
     phishingLinks |-> <<>>,
     shortenedLinks |-> <<>>,
     keywords |-> {<<"p","a","y">>, <<"s","e","n","d">>}],
    [id |-> "+91 09876543210, Hello, how are you?",
     upiIds |-> <<>>,
     bankAccounts |-> <<>>,
     phoneNumbers |-> <<[full |-> <<"+","9","1"," ","0","9","8","7","6","5","4","3","2","1","0">>, group |-> <<>>]>>,
     phishingLinks |-> <<>>,
     shortenedLinks |-> <<>>,
     keywords |-> {}],
    [id |-> "+91 09876543210, and amit@paytm",
     upiIds |-> <<[full |-> <<"a","m","i","t","@","p","a","y","t","m">>, group |-> <<"p","a","y","t","m">>]>>,
     bankAccounts |-> <<>>,
     phoneNumbers |-> <<[full |-> <<"+","9","1"," ","0","9","8","7","6","5","4","3","2","1","0">>, group |-> <<>>]>>,
     phishingLinks |-> <<>>,
     shortenedLinks |-> <<>>,
     keywords |-> {<<"p","a","y">>}],
    [id |-> "Hello, how are you?, and amit@paytm",
     upiIds |-> <<[full |-> <<"a","m","i","t","@","p","a","y","t","m">>, group |-> <<"p","a","y","t","m">>]>>,
     bankAccounts |-> <<>>,
     phoneNumbers |-> <<>>,
     phishingLinks |-> <<>>,
     shortenedLinks |-> <<>>,
     keywords |-> {<<"p","a","y">>}]
  }

\* re.compile(...).groups of each entry of PATTERNS
PatternGroups ==
  [upiIds |-> 1, bankAccounts |-> 1, phoneNumbers |-> 0, phishingLinks |-> 0,
   shortenedLinks |-> 1]

\* pattern.findall(text): the group's text when the pattern has one
\* capturing group, the whole match when it has none
FindAll(matches, groups) ==
  [i \in DOMAIN matches |-> IF groups = 0 THEN matches[i].full ELSE matches[i].group]

\* the five findall calls of extract and the keywords the text contains
Found(t) ==
  [id |-> t.id,
   upiIds |-> FindAll(t.upiIds, PatternGroups.upiIds),
   bankAccounts |-> FindAll(t.bankAccounts, PatternGroups.bankAccounts),
   phoneNumbers |-> FindAll(t.phoneNumbers, PatternGroups.phoneNumbers),
   phishingLinks |-> FindAll(t.phishingLinks, PatternGroups.phishingLinks),
   shortenedLinks |-> FindAll(t.shortenedLinks, PatternGroups.shortenedLinks),
   keywords |-> t.keywords]

\* what one extract call is given (the texts matched) and what it returns
ExtractionOf(t) ==
  [text |-> t.id,
   matched |-> [upiIds |-> [i \in DOMAIN t.upiIds |-> t.upiIds[i].full],
                phoneNumbers |-> [i \in DOMAIN t.phoneNumbers |-> t.phoneNumbers[i].full],
                shortenedLinks |->
                  [i \in DOMAIN t.shortenedLinks |-> t.shortenedLinks[i].full]],
   results |-> Extract(Found(t))]

ExtractionTable ==
  [t \in ExtractTexts |-> ExtractionOf(t)]

\* extractor.extract(text)
ExtractCall(t) ==
  /\ extraction' = ExtractionTable[t]
  /\ UNCHANGED pipelineVars
  /\ UNCHANGED <<sender, detection, storeCall, generation>>

NextExtract ==
  \E t \in ExtractTexts : ExtractCall(t)

SpecExtract ==
  Init /\ [][NextExtract]_vars

-----------------------------------------------------------------------------
(* Specification: the session store used through all of its methods         *)
(* (memory.py): process_message calls on two identifiers, direct            *)
(* get_or_create_session calls, delete_session, cleanup_old_sessions, and   *)
(* the passing of time. The clock counts hours.                             *)

\* hours that may pass without a message
MaxHours ==
  2

\* process_message calls made while the store is also used directly
MaxStoreCalls ==
  2

StoreSessionIds ==
  {"s1", "s2"}

StoreMessages ==
  {msgKycLink}

\* the identifiers messages arrive for; the other one is used through the store only
MessageSessionIds ==
  {"s1"}

\* the reply drawn from the pool (the store never reads it)
StoreReply ==
  "I'm not understanding what you're saying. Can you speak slowly?"

\* max_age_hours passed to cleanup_old_sessions
AgeThresholds ==
  {1, 2}

\* the record of a direct call: what it was given, what it left and returned
StoreCallOf(op, session_id, max_age_hours, removed, returned) ==
  [op |-> op, session_id |-> session_id,
   max_age_hours |-> max_age_hours, removed |-> removed, returned |-> returned,
   previous |-> IF op = "cleanup_old_sessions"
                THEN [op |-> storeCall.op, max_age_hours |-> storeCall.max_age_hours,
                      removed |-> storeCall.removed]
                ELSE NoStoreCall.previous]

storeFrame ==
  <<calls, detectCalls, respondCalls, extractCalls, extractedLog, finalizeAttempts,
    flagSets, reporterLog, lastDetect, response, generated, llmProvider, tasks,
    sender, detection, extraction, generation>>

\* memory.get_or_create_session(session_id, conversation_history)
GetOrCreateSession(session_id, hist) ==
  /\ sessions' = StoreAfterGetOrCreate(sessions, session_id, hist, now)
  /\ storeCall' = StoreCallOf("get_or_create_session", session_id, 0, 0,
                              sessions'[session_id])
  /\ UNCHANGED now
  /\ UNCHANGED storeFrame

\* memory.delete_session(session_id)
DeleteSession(session_id) ==
  /\ sessions' = StoreAfterDelete(sessions, session_id)
  /\ storeCall' = StoreCallOf("delete_session", session_id, 0, 0,
                              NoStoreCall.returned)
  /\ UNCHANGED now
  /\ UNCHANGED storeFrame

\* memory.cleanup_old_sessions(max_age_hours)
CleanupCall(max_age_hours) ==
  LET done == CleanupOldSessions(sessions, now, max_age_hours)
  IN /\ sessions' = done.store
     /\ storeCall' = StoreCallOf("cleanup_old_sessions", "none", max_age_hours,
                                 done.removed, NoStoreCall.returned)
     /\ UNCHANGED now
     /\ UNCHANGED storeFrame

\* an hour passes
Tick ==
  /\ now - (calls["s1"] + calls["s2"]) < MaxHours
  /\ now' = now + 1
  /\ storeCall' = NoStoreCall
  /\ UNCHANGED sessions
  /\ UNCHANGED storeFrame

InitStore ==
  /\ sessions = <<>>
  /\ now = 0
  /\ calls = [sid \in StoreSessionIds |-> 0]
  /\ detectCalls = [sid \in StoreSessionIds |-> 0]
  /\ respondCalls = [sid \in StoreSessionIds |-> 0]
  /\ extractCalls = [sid \in StoreSessionIds |-> 0]
  /\ extractedLog = [sid \in StoreSessionIds |-> [key \in IntelKeys |-> {}]]
  /\ finalizeAttempts = [sid \in StoreSessionIds |-> 0]
  /\ flagSets = [sid \in StoreSessionIds |-> 0]
  /\ reporterLog = [sid \in StoreSessionIds |-> <<>>]
  /\ lastDetect = NoDetect
  /\ response = [sessionId |-> "none", status |-> "none", reply |-> "none"]
  /\ generated = "none"
  /\ llmProvider = "fallback"
  /\ tasks = [k \in TaskIds |-> IdleTask]
  /\ sender = IdleSender
  /\ detection = [last |-> NoCall, before |-> NoCall]
  /\ extraction = NoExtraction
  /\ storeCall = NoStoreCall
  /\ generation = NoGeneration

NextStore ==
  \/ \E session_id \in MessageSessionIds, m \in StoreMessages :
       /\ calls["s1"] + calls["s2"] < MaxStoreCalls
       /\ ProcessMessage(session_id, m, FALSE)
       /\ generated' = StoreReply
  \/ \E session_id \in StoreSessionIds, hist \in HistoryFlags :
       GetOrCreateSession(session_id, hist)
  \/ \E session_id \in StoreSessionIds : DeleteSession(session_id)
  \/ \E max_age_hours \in AgeThresholds : CleanupCall(max_age_hours)
  \/ Tick

SpecStore ==
  InitStore /\ [][NextStore]_vars

-----------------------------------------------------------------------------
(* Specification: PersonaManager.generate_response called by itself.       *)
(* A reply is a string seen as its leading whitespace, its text and its    *)
(* trailing whitespace; a message is a sequence of one-character strings.  *)

\* a string without surrounding whitespace
Text(s) ==
  [leading |-> 0, text |-> s, trailing |-> 0]

\* str.strip()
Strip(content) ==
  Text(content.text)

\* truth value of a str: it is not ""
IsNonEmpty(content) ==
  content.leading + content.trailing > 0 \/ content.text # ""

\* _initial_response: responses (persona.py:175-181)
InitialResponses ==
  {"Beta, what is this? I don't understand. Why are you saying this?",
   "What happened? Is there some problem? I'm not understanding what you're saying.",
   "Hello? I'm old person, I don't know about these things. Can you explain simply?",
   "What is the matter? I am confused. Please tell me clearly what is the issue.",
   "I don't understand these technical words. Can you explain to me like a simple person?"}

\* _respond_to_upi_request: responses (persona.py:187-192)
UpiResponsesEarly ==
  {"What is UPI? I only use cash. My son handles my phone.",
   "UPI means what? I don't have smartphone, only Nokia button phone.",
   "I don't know about UPI. Can I just go to bank branch? That is easier for me.",
   "My grandson set up some payment thing, but I don't know how to use it. What should I do?"}

\* _respond_to_upi_request: responses (persona.py:194-199)
UpiResponsesLate ==
  {"Wait, let me ask my son about UPI. Which app should I use?",
   "I have some payment app but I forgot the password. Can you tell me which bank you are from?",
   "My UPI... I think it's something with my name. But which one you need? I have many banks.",
   "Beta, which UPI handle you want? I have SBI and HDFC both. Tell me your employee ID first."}

\* _respond_to_link: responses (persona.py:204-210)
LinkResponses ==
  {"Link? How do I open link? My phone doesn't have internet. Can you come to my house?",
   "I can't click anything. My phone is very old. Can you just tell me what to do?",
   "My grandson said never click on any link. Are you really from the company?",
   "I don't know how to click. My hands shake. Can you send someone to help me?",
   "The link is not opening. My phone doesn't have data. What should I do now?"}

\* _respond_to_sensitive_request: responses (persona.py:215-221)
SensitiveResponses ==
  {"OTP means what? I don't get any message. My phone is basic phone.",
   "My son told me never share password with anyone. Are you from my bank really?",
   "I don't see any code. Maybe my phone is not working? What number did you send to?",
   "PIN? I only remember my ATM PIN for withdrawing cash. Is that what you need?",
   "I don't know about these security codes. Can I just visit the bank tomorrow?"}

\* _respond_to_urgency: responses (persona.py:227-232)
UrgencyResponsesEarly ==
  {"Why so urgent? What will happen? I'm getting worried now. Please tell me clearly.",
   "Oh no! What should I do? I'm alone at home. Should I call my son?",
   "Today itself? But I don't understand the problem. Why urgent?",
   "I'm getting scared. What will happen if I don't do it? Please explain properly."}

\* _respond_to_urgency: responses (persona.py:234-239)
UrgencyResponsesLate ==
  {"But I need time to understand. I'm old person, can't do things so fast.",
   "You're making me nervous. Let me first call bank customer care to confirm.",
   "Why are you rushing me? This sounds suspicious. My son warned me about fraud calls.",
   "Hold on, I want to verify this first. Give me your employee ID and supervisor number."}

\* _respond_to_account_request: responses (persona.py:244-250)
AccountResponses ==
  {"I have accounts in 3 banks. Which bank are you calling from? SBI or HDFC or ICICI?",
   "Account number? I have my passbook somewhere. Wait, let me find it. Which bank you said?",
   "I don't remember account number. It's written in my passbook. Are you really from bank?",
   "First tell me, why you need my account number? My son said never share on phone.",
   "Which account? I have savings and pension account both. Tell me your office address first."}

\* _respond_to_fee_request: responses (persona.py:255-261)
FeeResponses ==
  {"Fee for what? Nobody told me about any fee. How much is it?",
   "I have to pay money? But why? I thought you are helping me. This is confusing.",
   "How much fee? Can I pay at bank branch? I don't trust online payment.",
   "You want me to pay? But you called me saying my account has problem. Why I should pay?",
   "My son said never pay any fee on phone. Are you doing some fraud? Tell me truth."}

\* _generic_confused_response: responses (persona.py:266-275)
GenericResponses ==
  {"I'm not understanding what you're saying. Can you speak slowly?",
   "Beta, you're using too many English words. I'm simple person from village.",
   "What you are saying is too complicated for me. Can you explain in simple way?",
   "I'm getting more confused. Maybe I should ask my neighbor who knows computers.",
   "You're talking too fast. I'm old, my hearing is not good. Say again please.",
   "I don't know about all these modern things. Why don't you just send someone to my house?",
   "This is very confusing for me. Let me call my son, he will talk to you.",
   "I need to think about this. Can you call me tomorrow? I will ask my family."}

\* _select_response_strategy: the word lists, in the order they are tested
StrategyWords ==
  << [strategy |-> "upi",
      words |-> {<<"u", "p", "i">>,
                 <<"p", "a", "y", "m", "e", "n", "t">>,
                 <<"t", "r", "a", "n", "s", "f", "e", "r">>,
                 <<"s", "e", "n", "d", " ", "m", "o", "n", "e", "y">>}],
     [strategy |-> "link",
      words |-> {<<"l", "i", "n", "k">>,
                 <<"c", "l", "i", "c", "k">>,
                 <<"w", "e", "b", "s", "i", "t", "e">>,
                 <<"h", "t", "t", "p">>,
                 <<"b", "i", "t", ".", "l", "y">>}],
     [strategy |-> "sensitive",
      words |-> {<<"o", "t", "p">>,
                 <<"c", "o", "d", "e">>,
                 <<"p", "a", "s", "s", "w", "o", "r", "d">>,
                 <<"p", "i", "n">>,
                 <<"c", "v", "v">>}],
     [strategy |-> "urgency",
      words |-> {<<"u", "r", "g", "e", "n", "t">>,
                 <<"i", "m", "m", "e", "d", "i", "a", "t", "e", "l", "y">>,
                 <<"n", "o", "w">>,
                 <<"t", "o", "d", "a", "y">>,
                 <<"b", "l", "o", "c", "k", "e", "d">>}],
     [strategy |-> "account",
      words |-> {<<"a", "c", "c", "o", "u", "n", "t">>,
                 <<"b", "a", "n", "k">>,
                 <<"a", "c", "c", "o", "u", "n", "t", " ", "n", "u", "m", "b", "e", "r">>}],
     [strategy |-> "fee",
      words |-> {<<"f", "e", "e">>,
                 <<"p", "a", "y">>,
                 <<"c", "h", "a", "r", "g", "e">>,
                 <<"a", "m", "o", "u", "n", "t">>,
                 <<"U+20B9">>,
                 <<"r", "u", "p", "e", "e", "s">>}] >>


\* word in message
Contains(message, word) ==
  \E i \in 1..(Len(message) - Len(word) + 1) :
    SubSeq(message, i, i + Len(word) - 1) = word

\* any(word in message for word in [...])
AnyWordIn(message, words) ==
  \E word \in words : Contains(message, word)

\* _respond_to_upi_request
RespondToUpiRequest(turn_count) ==
  IF turn_count < 3 THEN UpiResponsesEarly ELSE UpiResponsesLate

\* _respond_to_urgency
RespondToUrgency(turn_count) ==
  IF turn_count < 2 THEN UrgencyResponsesEarly ELSE UrgencyResponsesLate

\* the responses list random.choice draws from, per strategy
ResponsesOf(strategy, turn_count) ==
  CASE strategy = "initial" -> InitialResponses
    [] strategy = "upi" -> RespondToUpiRequest(turn_count)
    [] strategy = "link" -> LinkResponses
    [] strategy = "sensitive" -> SensitiveResponses
    [] strategy = "urgency" -> RespondToUrgency(turn_count)
    [] strategy = "account" -> AccountResponses
    [] strategy = "fee" -> FeeResponses
    [] OTHER -> GenericResponses

RECURSIVE FirstStrategy(_, _)
\* the chain of if statements over the word lists, from position i on
FirstStrategy(message, i) ==
  IF i > Len(StrategyWords) THEN "generic"
  ELSE IF AnyWordIn(message, StrategyWords[i].words) THEN StrategyWords[i].strategy
  ELSE FirstStrategy(message, i + 1)

\* variant of SelectResponseStrategy: the first turn is not treated apart
SelectResponseStrategy_NoInitial(message, turn_count) ==
  FirstStrategy(message, 1)

\* _select_response_strategy: the strategy taken
SelectResponseStrategy(message, turn_count) ==
  IF turn_count = 0 THEN "initial" ELSE FirstStrategy(message, 1)

\* what the call to the Groq API does
LlmKinds ==
  {"not_configured", "exception", "timeout", "status_500", "status_200"}

\* result["choices"][0]["message"]["content"] of a 200 response
LlmContents ==
  [leading : {0, 1}, text : {"", "Beta, who is calling? I am not understanding."},
   trailing : {0, 1}]

NoContent ==
  Text("")

LlmOutcomes ==
  {[kind |-> kind, content |-> NoContent] : kind \in LlmKinds \ {"status_200"}}
  \cup {[kind |-> "status_200", content |-> content] : content \in LlmContents}

\* variant of TryLlmResponse: an exception of the API call is not caught
TryLlmResponse_NoCatch(llm) ==
  IF llm.kind = "status_200"
  THEN [raised |-> FALSE, none |-> FALSE, reply |-> Strip(llm.content)]
  ELSE [raised |-> llm.kind \in {"exception", "timeout"}, none |-> TRUE,
        reply |-> NoContent]

\* _try_llm_response: None unless the API answered 200; every exception is caught
TryLlmResponse(llm) ==
  IF llm.kind = "status_200"
  THEN [raised |-> FALSE, none |-> FALSE, reply |-> Strip(llm.content)]
  ELSE [raised |-> FALSE, none |-> TRUE, reply |-> NoContent]

\* generate_response: whether it raises and the replies it may return
GenerateResponse(scammer_message, turn_count, llm) ==
  LET message_lower == Lower(scammer_message)
      llm_response == TryLlmResponse(llm)
  IN IF llm_response.raised
     THEN [raised |-> TRUE, rule_based |-> FALSE, replies |-> {NoContent}]
     ELSE IF ~llm_response.none /\ IsNonEmpty(llm_response.reply)
     THEN [raised |-> FALSE, rule_based |-> FALSE, replies |-> {llm_response.reply}]
     ELSE [raised |-> FALSE, rule_based |-> TRUE,
           replies |-> {Text(r) : r \in ResponsesOf(
                          SelectResponseStrategy(message_lower, turn_count),
                          turn_count)}]

\* "Send money by UPI"
txtSendUpi ==
  <<"S", "e", "n", "d", " ", "m", "o", "n", "e", "y", " ", "b", "y", " ", "U", "P", "I">>

\* "Click this LINK"
txtClickLink ==
  <<"C", "l", "i", "c", "k", " ", "t", "h", "i", "s", " ", "L", "I", "N", "K">>

\* "Your Bank details"
txtBank ==
  <<"Y", "o", "u", "r", " ", "B", "a", "n", "k", " ", "d", "e", "t", "a", "i", "l", "s">>

\* "Pay the Fee"
txtPayFee ==
  <<"P", "a", "y", " ", "t", "h", "e", " ", "F", "e", "e">>

\* "Hello sir"
txtHello ==
  <<"H", "e", "l", "l", "o", " ", "s", "i", "r">>

\* "I know you"
txtKnow ==
  <<"I", " ", "k", "n", "o", "w", " ", "y", "o", "u">>

\* "Pay now at bit.ly/x"
txtPayNowLink ==
  <<"P", "a", "y", " ", "n", "o", "w", " ", "a", "t", " ", "b", "i", "t", ".", "l", "y", "/", "x">>

\* "Account PIN"
txtAccountPin ==
  <<"A", "c", "c", "o", "u", "n", "t", " ", "P", "I", "N">>

\* "(rupee sign)500 charge"
txtRupees ==
  <<"U+20B9", "5", "0", "0", " ", "c", "h", "a", "r", "g", "e">>

RespondTexts ==
  {txtSendUpi, txtClickLink, txtBank, txtPayFee, txtHello, txtKnow, txtPayNowLink, txtAccountPin, txtRupees}

\* session["turn_count"] values generate_response is called with
MaxTurnCount ==
  4

\* generate_response per text, turn count and generator outcome, computed once
GenerationTable ==
  [scammer_message \in RespondTexts |->
     [turn_count \in 0..MaxTurnCount |->
        [llm \in LlmOutcomes |-> GenerateResponse(scammer_message, turn_count, llm)]]]

\* one generate_response call
GenerateCall(scammer_message, turn_count, llm) ==
  LET result == GenerationTable[scammer_message][turn_count][llm]
  IN /\ \E reply \in result.replies :
          generation' = [called |-> TRUE, scammer_message |-> scammer_message,
                         turn_count |-> turn_count, llm |-> llm,
                         raised |-> result.raised, rule_based |-> result.rule_based,
                         returned |-> reply]
     /\ UNCHANGED pipelineVars
     /\ UNCHANGED <<sender, detection, extraction, storeCall>>

NextRespond ==
  \E scammer_message \in RespondTexts, turn_count \in 0..MaxTurnCount,
     llm \in LlmOutcomes :
    GenerateCall(scammer_message, turn_count, llm)

SpecRespond ==
  Init /\ [][NextRespond]_vars

-----------------------------------------------------------------------------
(* Views of the state used by the properties *)

TurnCount(sid) ==
  IF sid \in DOMAIN sessions THEN sessions[sid].turn_count ELSE 0

Finalized(sid) ==
  IF sid \in DOMAIN sessions THEN sessions[sid].finalized ELSE FALSE

FinalizedAt(sid) ==
  IF sid \in DOMAIN sessions THEN sessions[sid].finalized_at ELSE NoTime

Intelligence(sid, key) ==
  IF sid \in DOMAIN sessions THEN sessions[sid].extracted_intelligence[key] ELSE {}

\* a process_message call for sid is made in this step
Called(sid) ==
  calls'[sid] = calls[sid] + 1

\* the call made in this step classified the message as non-scam with confidence < 0.1
ClassifiedClearlyBenign(sid) ==
  /\ Called(sid)
  /\ lastDetect'.ran
  /\ ~lastDetect'.is_scam
  /\ lastDetect'.confidence * 10 < ConfOne

EntityKeys ==
  {"upiIds", "phishingLinks", "bankAccounts", "phoneNumbers"}

-----------------------------------------------------------------------------
(* Properties *)

\* C1: over any sequence of process_message calls for a session, the finalized
\* flag changes from false to true at most once and the Reporter is invoked at
\* most once for the session identifier, however often the termination
\* predicate is true again on later turns.
C1_FinalizedAndReportedAtMostOnce ==
  \A sid \in SessionIds :
    /\ flagSets[sid] <= 1
    /\ Len(reporterLog[sid]) <= 1

\* a session for which the termination predicate was true on two calls or more
C1_Witness_PredicateTrueAgain ==
  \E sid \in SessionIds :
    /\ finalizeAttempts[sid] >= 2
    /\ flagSets[sid] = 1
    /\ Len(reporterLog[sid]) = 1

\* the termination conditions (a) to (d) as the claim words them
C2_ConditionHolds(session) ==
  LET turn == session.turn_count
      has(key) == session.extracted_intelligence[key] # {}
  IN \/ turn >= 1 /\ (has("upiIds") \/ has("phishingLinks"))
     \/ turn >= 2 /\ (\E key \in EntityKeys : has(key))
     \/ turn >= 3
     \/ turn >= MAX_CONVERSATION_TURNS

\* C2: whenever the Reporter is invoked for a session, one of the termination
\* conditions (a) to (d) holds of the session at that moment; a session with
\* turn count 0 is never finalized.
C2_ReportedOnlyWhenConditionHolds ==
  [][\A sid \in SessionIds :
       /\ Len(reporterLog'[sid]) > Len(reporterLog[sid])
            => /\ sid \in DOMAIN sessions'
               /\ C2_ConditionHolds(sessions'[sid])
       /\ sid \in DOMAIN sessions'
            => (sessions'[sid].finalized => sessions'[sid].turn_count >= 1)]_vars

\* the Reporter was invoked at turn 2 for a session that holds no handle and no link
C2_Witness_ReportedByRuleB ==
  \E sid \in SessionIds :
    /\ Len(reporterLog[sid]) = 1
    /\ reporterLog[sid][1].payload.totalMessagesExchanged = 2
    /\ reporterLog[sid][1].payload.extractedIntelligence["upiIds"] = {}
    /\ reporterLog[sid][1].payload.extractedIntelligence["phishingLinks"] = {}

\* C3: a session whose turn count has reached 3 is finalized and has had the
\* Reporter invoked exactly once by the end of the call that brought it there,
\* with or without extracted entities.
C3_FinalizedByThirdTurn ==
  \A sid \in DOMAIN sessions :
    sessions[sid].turn_count >= 3
      => /\ sessions[sid].finalized
         /\ Len(reporterLog[sid]) = 1

\* a session finalized at turn 3 with no entity at all
C3_Witness_ThirdTurnNoEntity ==
  \E sid \in DOMAIN sessions :
    /\ sessions[sid].turn_count = 3
    /\ \A key \in EntityKeys : sessions[sid].extracted_intelligence[key] = {}
    /\ Len(reporterLog[sid]) = 1
    /\ reporterLog[sid][1].payload.totalMessagesExchanged = 3

\* C4 as stated: every process_message call increases the turn count by 1.
C4_Original_EveryCallIncrements ==
  [][\A sid \in SessionIds :
       Called(sid) => TurnCount(sid)' = TurnCount(sid) + 1]_vars

\* C4 (amended): a call that takes the engaged path increases the turn count by
\* exactly 1; a call closed with the neutral reply (first-turn classification
\* non-scam with confidence < 0.1) leaves it unchanged; it never decreases.
C4_TurnCountPerCall ==
  [][\A sid \in SessionIds :
       /\ Called(sid) /\ ~ClassifiedClearlyBenign(sid)
            => TurnCount(sid)' = TurnCount(sid) + 1
       /\ ClassifiedClearlyBenign(sid) => TurnCount(sid)' = TurnCount(sid)
       /\ TurnCount(sid)' >= TurnCount(sid)]_vars

\* a session that saw a neutral close and two engaged calls
C4_Witness_BothPaths ==
  \E sid \in SessionIds :
    /\ TurnCount(sid) >= 2
    /\ calls[sid] > TurnCount(sid)

\* C5 as stated: detect is called at most once for a session.
C5_Original_DetectAtMostOnce ==
  \A sid \in SessionIds : detectCalls[sid] <= 1

\* C5 (amended): detect is called exactly by the calls that find the session's
\* turn count at 0: a message closed with the neutral reply leaves the turn
\* count at 0 and the next message is classified again; once a call has taken
\* the engaged path, detect is never called again for the session.
C5_DetectWhileTurnCountZero ==
  [][\A sid \in SessionIds :
       Called(sid)
         => detectCalls'[sid] = detectCalls[sid] + (IF TurnCount(sid) = 0 THEN 1 ELSE 0)]_vars

\* a session classified twice, then engaged on two further messages
C5_Witness_ReclassifiedThenEngaged ==
  \E sid \in SessionIds :
    /\ detectCalls[sid] = 2
    /\ TurnCount(sid) >= 2
    /\ calls[sid] = TurnCount(sid) + 1

\* C6: each intelligence collection is the case-insensitive union of the
\* per-turn extraction results: it holds every value a turn extracted and no
\* two elements that are equal ignoring case.
C6_CaseInsensitiveUnion ==
  \A sid \in SessionIds :
    \A key \in IntelKeys :
      /\ extractedLog[sid][key] \subseteq Intelligence(sid, key)
      /\ Intelligence(sid, key) \subseteq extractedLog[sid][key]
      /\ \A x, y \in Intelligence(sid, key) : Lower(x) = Lower(y) => x = y

\* C7: every process_message call leaves each of the five collections a
\* superset of what it was before the call.
C7_CollectionsNeverShrink ==
  [][\A sid \in SessionIds :
       \A key \in IntelKeys :
         Intelligence(sid, key) \subseteq Intelligence(sid, key)']_vars

\* a session that merged a second turn's links into the first turn's
C7_Witness_SecondMerge ==
  \E sid \in SessionIds :
    /\ TurnCount(sid) >= 2
    /\ Cardinality(Intelligence(sid, "phishingLinks")) >= 2
    /\ Cardinality(Intelligence(sid, "suspiciousKeywords")) >= 2

\* C8: once finalized is true, no later process_message call makes it false,
\* and later finalization attempts leave the flag and the finalized timestamp
\* as they were.
C8_FinalizedIsTerminal ==
  [][\A sid \in SessionIds :
       Finalized(sid)
         => /\ Finalized(sid)'
            /\ FinalizedAt(sid)' = FinalizedAt(sid)]_vars

\* a finalized session on which a later call attempted finalization again
C8_Witness_LaterAttempt ==
  \E sid \in DOMAIN sessions :
    /\ sessions[sid].finalized
    /\ finalizeAttempts[sid] >= 2
    /\ sessions[sid].last_message_time > sessions[sid].finalized_at

\* C9: when the Reporter call made at finalization returns false or raises,
\* the session is finalized all the same and no later call invokes the
\* Reporter again.
C9_FailedReportStillFinal ==
  \A sid \in SessionIds :
    (\E i \in DOMAIN reporterLog[sid] : reporterLog[sid][i].outcome \in {"fail", "raise"})
      => /\ Finalized(sid)
         /\ Len(reporterLog[sid]) = 1

\* a session whose report failed and whose termination predicate was true again later
C9_Witness_FailedThenLaterTurn ==
  \E sid \in SessionIds :
    /\ Len(reporterLog[sid]) = 1
    /\ reporterLog[sid][1].outcome \in {"fail", "raise"}
    /\ finalizeAttempts[sid] >= 2

\* C10: when the first-turn classification is non-scam with confidence < 0.1,
\* the call returns the neutral closing reply, invokes neither the Responder
\* nor the Extractor nor the Reporter, leaves turn count, collections and
\* finalized flag as they were, and persists the classification.
C10_NeutralCloseFrame ==
  [][\A sid \in SessionIds :
       ClassifiedClearlyBenign(sid)
         => /\ response'.reply = NeutralReply
            /\ response'.sessionId = sid
            /\ respondCalls'[sid] = respondCalls[sid]
            /\ extractCalls'[sid] = extractCalls[sid]
            /\ reporterLog'[sid] = reporterLog[sid]
            /\ TurnCount(sid)' = TurnCount(sid)
            /\ \A key \in IntelKeys : Intelligence(sid, key)' = Intelligence(sid, key)
            /\ Finalized(sid)' = Finalized(sid)
            /\ sid \in DOMAIN sessions'
            /\ sessions'[sid].scam_detected = FALSE
            /\ sessions'[sid].scam_confidence = lastDetect'.confidence
            /\ sessions'[sid].scam_type = lastDetect'.scam_type]_vars

\* a session closed neutrally on a message of non-zero confidence
C10_Witness_NeutralClose ==
  \E sid \in DOMAIN sessions :
    /\ response.reply = NeutralReply
    /\ lastDetect.ran
    /\ ~lastDetect.is_scam
    /\ lastDetect.confidence > 0
    /\ lastDetect.confidence * 10 < ConfOne
    /\ sessions[sid].scam_confidence = lastDetect.confidence
    /\ sessions[sid].turn_count = 0

\* C11: when the first-turn classification is non-scam with confidence >= 0.1
\* the session is engaged as a scam: the stored flag is true and the stored
\* confidence is at least 0.5; when the classification is scam, flag and
\* confidence are stored as the classifier returned them.
C11_BorderlineOverride ==
  [][\A sid \in SessionIds :
       Called(sid) /\ lastDetect'.ran
         => /\ sid \in DOMAIN sessions'
            /\ (~lastDetect'.is_scam /\ lastDetect'.confidence * 10 >= ConfOne)
                 => /\ sessions'[sid].scam_detected = TRUE
                    /\ sessions'[sid].scam_confidence * 2 >= ConfOne
            /\ lastDetect'.is_scam
                 => /\ sessions'[sid].scam_detected = TRUE
                    /\ sessions'[sid].scam_confidence = lastDetect'.confidence]_vars

\* a session engaged on a message classified non-scam with confidence exactly 0.1
C11_Witness_BorderlineEngaged ==
  \E sid \in DOMAIN sessions :
    /\ lastDetect.ran
    /\ lastDetect.sessionId = sid
    /\ ~lastDetect.is_scam
    /\ lastDetect.confidence * 10 = ConfOne
    /\ sessions[sid].scam_detected
    /\ sessions[sid].scam_confidence * 2 = ConfOne
    /\ sessions[sid].turn_count = 1

\* C12: when the first engaged message of a session yields a payment handle
\* or a link, condition (a) fires in that same call: the turn count becomes 1
\* and the Reporter is invoked exactly once, with totalMessagesExchanged = 1.
C12_CriticalIntelReportedAtOnce ==
  [][\A sid \in SessionIds :
       ( /\ Called(sid)
         /\ TurnCount(sid) = 0
         /\ ~ClassifiedClearlyBenign(sid)
         /\ \/ extractedLog'[sid]["upiIds"] # {}
            \/ extractedLog'[sid]["phishingLinks"] # {} )
         => /\ TurnCount(sid)' = 1
            /\ reporterLog[sid] = <<>>
            /\ Len(reporterLog'[sid]) = 1
            /\ reporterLog'[sid][1].payload.totalMessagesExchanged = 1]_vars

\* a session reported at turn 1 on a first message that carried a link
C12_Witness_LinkOnFirstMessage ==
  \E sid \in DOMAIN sessions :
    /\ calls[sid] = 1
    /\ sessions[sid].turn_count = 1
    /\ sessions[sid].scam_type = "KYC_FRAUD"
    /\ sessions[sid].extracted_intelligence["phishingLinks"] # {}
    /\ Len(reporterLog[sid]) = 1
    /\ reporterLog[sid][1].payload.totalMessagesExchanged = 1

\* C13: the payload handed to the Reporter is built once per session; it
\* carries the turn count at the moment finalization triggers and exactly the
\* intelligence extracted from the messages up to and including the
\* finalizing one; what later messages merge never reaches a payload.
C13_PayloadIsSnapshotAtFinalization ==
  [][\A sid \in SessionIds :
       /\ Len(reporterLog'[sid]) <= 1
       /\ reporterLog[sid] # <<>> => reporterLog'[sid] = reporterLog[sid]
       /\ (reporterLog[sid] = <<>> /\ reporterLog'[sid] # <<>>)
            => LET payload == reporterLog'[sid][1].payload
               IN /\ Called(sid)
                  /\ payload.sessionId = sid
                  /\ payload.totalMessagesExchanged = TurnCount(sid)'
                  /\ \A key \in IntelKeys :
                       payload.extractedIntelligence[key] = extractedLog'[sid][key]]_vars

\* a reported session into which a later message merged an entity the payload lacks
C13_Witness_MergedAfterReport ==
  \E sid \in DOMAIN sessions :
    /\ Len(reporterLog[sid]) = 1
    /\ sessions[sid].turn_count > reporterLog[sid][1].payload.totalMessagesExchanged
    /\ \E key \in EntityKeys :
         sessions[sid].extracted_intelligence[key]
           \ reporterLog[sid][1].payload.extractedIntelligence[key] # {}

\* C14: every process_message call on the engaged path returns the reply the
\* Responder produced in that call, unchanged, whether or not the termination
\* predicate fired and whether the Reporter succeeded, failed or raised.
C14_EngagedCallReturnsResponderReply ==
  [][\A sid \in SessionIds :
       (Called(sid) /\ ~ClassifiedClearlyBenign(sid))
         => /\ respondCalls'[sid] = respondCalls[sid] + 1
            /\ generated' \in PersonaReplies
            /\ response'.sessionId = sid
            /\ response'.status = "success"
            /\ response'.reply = generated']_vars

\* a call whose Reporter invocation raised and which returned the Responder's reply
C14_Witness_ReporterRaised ==
  \E sid \in SessionIds :
    /\ Len(reporterLog[sid]) = 1
    /\ reporterLog[sid][1].outcome = "raise"
    /\ reporterLog[sid][1].payload.totalMessagesExchanged = TurnCount(sid)
    /\ response.sessionId = sid
    /\ response.reply = generated
    /\ generated \in PersonaReplies


\* the coroutine k reads or writes the session of sid in this step
AccessesSession(k, sid) ==
  \/ tasks[k].pc = "idle" /\ tasks'[k].pc # "idle" /\ tasks'[k].session_id = sid
  \/ /\ tasks[k].pc = "generator" /\ tasks[k].session_id = sid
     /\ tasks'[k].pc \in {"reporter", "done"}

\* the coroutine j has loaded the session of sid and not yet made its final
\* persist, before and after this step
InsideLoadToPersist(j, sid) ==
  /\ tasks[j].pc = "generator" /\ tasks[j].session_id = sid
  /\ tasks'[j].pc = "generator"

\* C15: load -> mutate -> persist of process_message runs under per-key
\* mutual exclusion: while one call for an identifier is between loading the
\* session and its final persist, no other call for that identifier reads or
\* mutates the session.
C15_PerKeyMutualExclusion ==
  [][\A sid \in SessionIds : \A j \in TaskIds : \A k \in TaskIds \ {j} :
       ~(InsideLoadToPersist(j, sid) /\ AccessesSession(k, sid))]_vars

\* C16: when process_message calls for one identifier overlap and interleave
\* at the generator call and the Reporter call, the finalized flag is set at
\* most once and the Reporter is invoked at most once for the identifier.
C16_OverlappingCallsReportOnce ==
  \A sid \in SessionIds :
    /\ Len(reporterLog[sid]) <= 1
    /\ flagSets[sid] <= 1
    /\ Cardinality({k \in TaskIds : tasks[k].pc = "reporter"
                                     /\ tasks[k].session_id = sid}) <= 1
    /\ flagSets[sid] = Len(reporterLog[sid])

\* two calls that both classified at turn 0 (they overlapped at the generator);
\* both found the termination predicate true, one is still awaiting the Reporter
C16_Witness_SecondSkippedWhileFirstInFlight ==
  \E sid \in SessionIds : \E j, k \in TaskIds :
    /\ llmProvider = "groq"
    /\ tasks[j].pc = "reporter" /\ tasks[j].session_id = sid
    /\ tasks[k].pc = "done" /\ tasks[k].session_id = sid
    /\ detectCalls[sid] = 2
    /\ finalizeAttempts[sid] = 2
    /\ Len(reporterLog[sid]) = 1

\* C17: a process_message call cancelled while the Reporter call is in
\* flight leaves the stored session finalized; the finalization is not rolled
\* back and later calls for the session do not invoke the Reporter again.
C17_CancelledReportStaysFinal ==
  \A k \in TaskIds :
    tasks[k].pc = "cancelled_at_reporter"
      => LET sid == tasks[k].session_id
         IN /\ Finalized(sid)
            /\ FinalizedAt(sid) # NoTime
            /\ flagSets[sid] = 1
            /\ Len(reporterLog[sid]) = 1

\* after the cancellation a later call found the predicate true and sent nothing
C17_Witness_LaterCallAfterCancel ==
  \E j, k \in TaskIds :
    /\ tasks[j].pc = "cancelled_at_reporter"
    /\ tasks[k].pc = "done" /\ tasks[k].session_id = tasks[j].session_id
    /\ LET sid == tasks[j].session_id
       IN /\ reporterLog[sid][1].outcome = "cancelled"
          /\ TurnCount(sid) > reporterLog[sid][1].payload.totalMessagesExchanged
          /\ finalizeAttempts[sid] = 2
          /\ Len(reporterLog[sid]) = 1

\* positions of the attempts in the events of the send_final_result call
AttemptsMade ==
  {i \in DOMAIN sender.log : sender.log[i].event = "attempt"}

WaitsMade ==
  {i \in DOMAIN sender.log : sender.log[i].event = "wait"}

GotSuccess(i) ==
  sender.log[i].kind = "response" /\ sender.log[i].status = 200

GotClientError(i) ==
  /\ sender.log[i].kind = "response"
  /\ sender.log[i].status >= 400 /\ sender.log[i].status <= 499

\* timeout, network error, server error
GotRetryableFailure(i) ==
  \/ sender.log[i].kind \in {"TimeoutException", "RequestError"}
  \/ sender.log[i].kind = "response" /\ sender.log[i].status >= 500

C18_DeliveryOutcome ==
  /\ Cardinality(AttemptsMade) <= 3
  /\ \A i \in AttemptsMade : GotSuccess(i) => i = Len(sender.log)
  /\ sender.result \in {"pending", "True", "False"}
  /\ sender.pc = "returned" <=> sender.result # "pending"
  /\ sender.result = "True" <=> \E i \in AttemptsMade : GotSuccess(i)
  /\ sender.result = "False"
       <=> sender.pc = "returned" /\ \A i \in AttemptsMade : ~GotSuccess(i)

\* C18: send_final_result makes at most 3 attempts and none after a
\* success, always terminates, returns true exactly when some attempt got a
\* success response and false in every other case, never raising.
C18_BoundedDelivery ==
  /\ []C18_DeliveryOutcome
  /\ (sender.pc # "idle") ~> (sender.pc = "returned")

\* a call that succeeded on its third attempt
C18_Witness_ThirdAttemptSucceeds ==
  /\ sender.pc = "returned"
  /\ sender.result = "True"
  /\ Cardinality(AttemptsMade) = 3
  /\ GotSuccess(Len(sender.log))

\* C19: a client-class (4xx) response on any attempt aborts the retries: no
\* further attempt and no backoff wait follows it, and the call returns false.
C19_ClientErrorAborts ==
  \A i \in AttemptsMade :
    GotClientError(i)
      => /\ i = Len(sender.log)
         /\ sender.pc = "returned"
         /\ sender.result = "False"

\* a 4xx response on the second attempt, after one retry
C19_Witness_ClientErrorOnRetry ==
  /\ Len(sender.log) = 3
  /\ sender.log[3].event = "attempt"
  /\ sender.log[3].attempt = 2
  /\ sender.log[3].status = 404
  /\ sender.result = "False"

C22_ConfidenceInUnitRange ==
  /\ detection.last.returned.confidence >= 0
  /\ detection.last.returned.confidence <= ConfOne

\* C23: detect always returns the category label it computed (the
\* highest-scoring category, or generic-fraud when no pattern matched), also
\* when the message is classified as not-a-scam.
C23_ComputedLabelReturned ==
  detection.last.text # "none"
    => detection.last.returned.scam_type = detection.last.computed.scam_type

\* C24: for any category, a message that matches a superset of the category
\* patterns another message matches has a category confidence that is not
\* lower.
C24_CategoryConfidenceMonotone ==
  (detection.last.text # "none" /\ detection.before.text # "none")
    => \A i \in DOMAIN Categories :
         detection.before.patterns[i] \subseteq detection.last.patterns[i]
           => detection.last.category_confidence[i]
                >= detection.before.category_confidence[i]

\* three lottery patterns after two of them: confidence 1.8 after 1.2
C24_Witness_MorePatternsHigherConfidence ==
  \E i \in DOMAIN Categories :
    /\ detection.before.patterns[i] # {}
    /\ detection.before.patterns[i] \subseteq detection.last.patterns[i]
    /\ detection.before.patterns[i] # detection.last.patterns[i]
    /\ detection.before.category_confidence[i] > ConfOne
    /\ detection.last.category_confidence[i] > detection.before.category_confidence[i]

\* C25: extract returns every payment handle as the complete
\* local-part@provider text: "send to rahul.k@paytm now" yields exactly
\* "rahul.k@paytm", two distinct handles yield two entries, and
\* "office@company.com" (unlisted provider) yields no handle.
C25_HandlesExtractedWhole ==
  /\ \A i \in DOMAIN extraction.matched.upiIds :
       \E j \in DOMAIN extraction.results["upiIds"] :
         Lower(extraction.results["upiIds"][j]) = Lower(extraction.matched.upiIds[i])
  /\ extraction.text = "send to rahul.k@paytm now"
       => extraction.results["upiIds"] = <<<<"r","a","h","u","l",".","k","@","p","a","y","t","m">>>>
  /\ extraction.text = "send to rahul.k@paytm now, or pay priya@ybl"
       => Len(extraction.results["upiIds"]) = 2
  /\ extraction.text = "contact me at office@company.com"
       => extraction.results["upiIds"] = <<>>

\* C26: a known-shortener link is extracted as one link, "http://" followed
\* by the matched domain and path: "Update immediately at bit.ly/fake-kyc"
\* yields exactly the link http://bit.ly/fake-kyc.
C26_ShortenerLinkReconstructed ==
  /\ \A i \in DOMAIN extraction.matched.shortenedLinks :
       \E j \in DOMAIN extraction.results["phishingLinks"] :
         Lower(extraction.results["phishingLinks"][j])
           = Lower(HttpPrefix \o extraction.matched.shortenedLinks[i])
  /\ extraction.text = "Update immediately at bit.ly/fake-kyc"
       => extraction.results["phishingLinks"] = <<<<"h","t","t","p",":","/","/","b","i","t",".","l","y","/","f","a","k","e","-","k","y","c">>>>

\* C27: every phone number extract emits is "+91" and exactly 10 digits, the
\* first of them 7, 8 or 9; "+91 9876543210", "09876543210" and
\* "919876543210" all give "+919876543210"; "12345" gives no number.
C27_PhonesNormalized ==
  /\ \A j \in DOMAIN extraction.results["phoneNumbers"] :
       LET phone == extraction.results["phoneNumbers"][j]
       IN /\ Len(phone) = 13
          /\ SubSeq(phone, 1, 3) = <<"+","9","1">>
          /\ phone[4] \in {"7","8","9"}
          /\ \A k \in 4..13 : phone[k] \in DigitChars
  /\ extraction.text \in {"+91 9876543210", "09876543210", "919876543210"}
       => extraction.results["phoneNumbers"] = <<<<"+","9","1","9","8","7","6","5","4","3","2","1","0">>>>
  /\ extraction.text = "12345" => extraction.results["phoneNumbers"] = <<>>

\* two written forms of one number in a text, emitted once in normal form
C27_Witness_TwoFormsOneNumber ==
  /\ extraction.text = "+91 9876543210, 09876543210"
  /\ Len(extraction.matched.phoneNumbers) = 2
  /\ extraction.matched.phoneNumbers[1] # extraction.matched.phoneNumbers[2]
  /\ extraction.results["phoneNumbers"] = <<<<"+","9","1","9","8","7","6","5","4","3","2","1","0">>>>

\* C28: a direct get_or_create_session call for an identifier the store already
\* holds leaves the store as it was and returns the stored session, with its turn
\* count, classification fields, intelligence and finalized flag, whatever history
\* is passed
C28_ExistingSessionReturned ==
  [][ (/\ storeCall'.op = "get_or_create_session"
       /\ storeCall'.session_id \in DOMAIN sessions)
      => /\ sessions' = sessions
         /\ storeCall'.returned = sessions[storeCall'.session_id] ]_vars

\* a session with a processed message and a report behind it was asked for again
C28_Witness_FinalizedSessionAskedAgain ==
  /\ storeCall.op = "get_or_create_session"
  /\ storeCall.session_id \in DOMAIN sessions
  /\ storeCall.returned.turn_count >= 1
  /\ storeCall.returned.finalized
  /\ storeCall.returned.created_at < now

\* C29: a cleanup_old_sessions call removes exactly the sessions whose age exceeds
\* the threshold, returns their number and leaves the others as they were; a second
\* call with the same threshold right after it (nothing in between, the clock read
\* the same) removes none
C29_PurgeIdempotent ==
  [][ storeCall'.op = "cleanup_old_sessions"
      => LET max_age_hours == storeCall'.max_age_hours
             older == {sid \in DOMAIN sessions :
                         now - sessions[sid].created_at > max_age_hours}
         IN /\ DOMAIN sessions' = DOMAIN sessions \ older
            /\ \A sid \in DOMAIN sessions' : sessions'[sid] = sessions[sid]
            /\ storeCall'.removed = Cardinality(older)
            /\ (/\ storeCall.op = "cleanup_old_sessions"
                /\ storeCall.max_age_hours = max_age_hours)
               => /\ storeCall'.removed = 0
                  /\ sessions' = sessions ]_vars

\* the first purge removed a session and kept a younger one that has a turn; the
\* second purge, same threshold, removed none
C29_Witness_SecondPurgeRemovesNone ==
  /\ storeCall.op = "cleanup_old_sessions"
  /\ storeCall.removed = 0
  /\ storeCall.previous.op = "cleanup_old_sessions"
  /\ storeCall.previous.max_age_hours = storeCall.max_age_hours
  /\ storeCall.previous.removed >= 1
  /\ \E sid \in DOMAIN sessions : sessions[sid].turn_count >= 1

\* C30: over any sequence of process_message, delete_session and
\* cleanup_old_sessions operations the Reporter is invoked at most once per
\* session identifier, also when a finalized session is deleted or purged
\* and further messages arrive under its identifier.
C30_ReportedOncePerIdentifier ==
  \A sid \in StoreSessionIds : Len(reporterLog[sid]) <= 1

\* C31: with messages processed one at a time, every payload passed to the
\* Reporter has scamDetected true
C31_ReportedAsScam ==
  \A sid \in SessionIds :
    \A i \in DOMAIN reporterLog[sid] : reporterLog[sid][i].payload.scamDetected

\* a session engaged through the borderline override was reported
C31_Witness_BorderlineSessionReported ==
  \E sid \in SessionIds :
    /\ Len(reporterLog[sid]) = 1
    /\ reporterLog[sid][1].payload.scamDetected
    /\ sid \in DOMAIN sessions
    /\ sessions[sid].scam_type = "NONE"

\* C32: with MAX_CONVERSATION_TURNS at least 3, totalMessagesExchanged of every
\* payload passed to the Reporter is 1, 2 or 3, below the safety ceiling
C32_ReportedWithinThreeTurns ==
  /\ MAX_CONVERSATION_TURNS >= 3
  /\ \A sid \in SessionIds :
       \A i \in DOMAIN reporterLog[sid] :
         /\ reporterLog[sid][i].payload.totalMessagesExchanged \in {1, 2, 3}
         /\ reporterLog[sid][i].payload.totalMessagesExchanged < MAX_CONVERSATION_TURNS

\* a session without any entity was reported at its third turn and took a fourth
C32_Witness_ReportedAtThirdTurnThenFourth ==
  \E sid \in SessionIds :
    /\ Len(reporterLog[sid]) = 1
    /\ reporterLog[sid][1].payload.totalMessagesExchanged = 3
    /\ TurnCount(sid) = 4
    /\ \A key \in EntityKeys : Intelligence(sid, key) = {}

\* the word list of the i-th bucket has a word inside the lower-cased message
BucketMatches(i) ==
  AnyWordIn(Lower(generation.scammer_message), StrategyWords[i].words)

\* the generator gave no usable reply to the latest generate_response call
NoUsableReply ==
  /\ generation.called
  /\ \/ generation.llm.kind # "status_200"
     \/ generation.llm.content.text = ""

\* the pool the fixed order of the buckets selects for the latest call
ExpectedPool ==
  LET turn_count == generation.turn_count
  IN IF turn_count = 0 THEN InitialResponses
     ELSE IF BucketMatches(1)
     THEN (IF turn_count < 3 THEN UpiResponsesEarly ELSE UpiResponsesLate)
     ELSE IF BucketMatches(2) THEN LinkResponses
     ELSE IF BucketMatches(3) THEN SensitiveResponses
     ELSE IF BucketMatches(4)
     THEN (IF turn_count < 2 THEN UrgencyResponsesEarly ELSE UrgencyResponsesLate)
     ELSE IF BucketMatches(5) THEN AccountResponses
     ELSE IF BucketMatches(6) THEN FeeResponses
     ELSE GenericResponses

\* C33: without a usable generator reply the Responder returns a member of the pool
\* selected by first match in fixed order: the introduction pool at turn count 0,
\* else payment, link, credential, urgency, account, fee by case-insensitive
\* substring (payment varying at turn count < 3, urgency at < 2), else the generic pool
C33_PoolByFirstMatch ==
  NoUsableReply =>
    /\ ~generation.raised
    /\ generation.returned \in {Text(r) : r \in ExpectedPool}
    /\ StrategyWords[1].strategy = "upi" /\ StrategyWords[2].strategy = "link"
    /\ StrategyWords[3].strategy = "sensitive" /\ StrategyWords[4].strategy = "urgency"
    /\ StrategyWords[5].strategy = "account" /\ StrategyWords[6].strategy = "fee"

\* "Pay now at bit.ly/x" at a later turn matches the link, urgency and fee buckets
\* and is answered from the link pool
C33_Witness_FirstOfThreeBuckets ==
  /\ NoUsableReply
  /\ generation.turn_count >= 1
  /\ ~BucketMatches(1)
  /\ BucketMatches(2) /\ BucketMatches(4) /\ BucketMatches(6)
  /\ generation.returned \in {Text(r) : r \in LinkResponses}

TopCategories ==
  LET n(i) == Cardinality(detection.last.patterns[i])
  IN {i \in DOMAIN Categories :
        /\ n(i) > 0
        /\ \A j \in DOMAIN Categories :
             n(j) * PatternCount[i] <= n(i) * PatternCount[j]}

\* C35: the label computed is the first of the categories of highest score in the
\* order UPI_FRAUD, KYC_FRAUD, ELECTRICITY_SCAM, COURIER_SCAM, JOB_SCAM,
\* LOTTERY_PRIZE, and two calls with the same message compute the same label and
\* confidence
C35_FirstOfTiedCategories ==
  /\ Categories = <<"UPI_FRAUD", "KYC_FRAUD", "ELECTRICITY_SCAM", "COURIER_SCAM",
                    "JOB_SCAM", "LOTTERY_PRIZE">>
  /\ (detection.last.text # "none" /\ TopCategories # {})
       => \E i \in TopCategories :
            /\ \A j \in TopCategories : i <= j
            /\ detection.last.computed.scam_type = Categories[i]
  /\ detection.last.text = detection.before.text
       => detection.last.computed = detection.before.computed

\* ELECTRICITY_SCAM and COURIER_SCAM tie at one pattern of five; both calls with
\* this text label it ELECTRICITY_SCAM
C35_Witness_TieGoesToFirst ==
  /\ TopCategories = {3, 4}
  /\ detection.last.computed.scam_type = "ELECTRICITY_SCAM"
  /\ detection.before.text = detection.last.text
  /\ detection.before.computed = detection.last.computed

\* C36: each of the two boosts of the classifier leaves the confidence at least as
\* high as it was before the boost
C36_BoostsNeverLower ==
  /\ detection.last.boosts.signals.applied
       => detection.last.boosts.signals.to >= detection.last.boosts.signals.from
  /\ detection.last.boosts.high_risk.applied
       => detection.last.boosts.high_risk.to >= detection.last.boosts.high_risk.from

\* coroutines of sid that entered the engaged path and did not reach Step 5:
\* suspended in the generator call, or cancelled there
NotCounted(sid) ==
  {k \in TaskIds : /\ tasks[k].session_id = sid
                   /\ tasks[k].pc \in {"generator", "cancelled_at_generator"}}

\* every coroutine created has returned
AllReturned ==
  \A k \in TaskIds : tasks[k].pc \in {"idle", "done"}

\* C37: with calls interleaving at their suspension points, the turn count of a
\* session equals the number of calls that took the engaged path and passed
\* Step 5; once all calls have returned it equals the number of engaged calls
C37_NoTurnLost ==
  \A sid \in SessionIds :
    /\ TurnCount(sid) = respondCalls[sid] - Cardinality(NotCounted(sid))
    /\ AllReturned => TurnCount(sid) = respondCalls[sid]

\* three calls were classified while the turn count was 0, so they overlapped in
\* the generator call; all three returned and the turn count is 3
C37_Witness_ThreeOverlappingTurns ==
  \E sid \in SessionIds :
    /\ AllReturned
    /\ llmProvider = "groq"
    /\ detectCalls[sid] = 3
    /\ respondCalls[sid] = 3
    /\ TurnCount(sid) = 3

====
